---- MODULE Spec2Model ----
(***************************************************************************)
(* The postgres-backed datastore of indradb (lib/src/pg/datastore.rs):     *)
(* the lowering of vertex and edge queries into a chain of CTEs, and the   *)
(* transaction surface that executes the lowered statements.               *)
(*                                                                         *)
(* The database is modelled as PostgreSQL keeps it: every table is a set   *)
(* of row versions stamped with the transaction that inserted the version  *)
(* (xmin) and the transaction that deleted it (xmax); 0 stands for "a      *)
(* committed transaction" in xmin and for "nobody" in xmax.  Statements    *)
(* run under READ COMMITTED: a statement of transaction t sees the         *)
(* committed versions and t's own, minus those t deleted.                  *)
(***************************************************************************)
EXTENDS Integers, Sequences, FiniteSets, TLC

VARIABLES vertices, edges, vertex_metadata, edge_metadata, clock, uuid_ctr, tx, last,
          wire, savepoints, conn, pool

\* wire is the sequence of statements the last call sent on its connection;
\* savepoints[t] the names of the nested transactions (savepoints) that
\* are open on the connection of t, innermost last.  conn[t] is the pooled
\* connection the PostgresTransaction t owns (0: t does not exist), and
\* pool[c] the connection c of the pool: whether it lies idle in the pool,
\* whether a database transaction is open on it, and whether one was open
\* at the moment it was last put back.
vars == <<vertices, edges, vertex_metadata, edge_metadata, clock, uuid_ctr, tx, last,
          wire, savepoints, conn, pool>>

tables == <<vertices, edges, vertex_metadata, edge_metadata>>

(***************************************************************************)
(* Bounds of the model.                                                    *)
(***************************************************************************)
\* Number of PostgresTransaction objects that may be alive at once.
NumTx == 2

\* Number of create_edge calls of one run (each draws a fresh UUID).
MaxCalls == 2

Tx == 1 .. NumTx

\* Number of connections of the pool (max_size).
PoolSize == 2

Conns == 1 .. PoolSize

\* Option<T>: None is the empty sequence, Some(x) the sequence <<x>>.
None == << >>

Some(x) == <<x>>

(***************************************************************************)
(* models::Vertex, models::EdgeKey and the query algebra.                  *)
(***************************************************************************)
Vertex(id, t) == [id |-> id, t |-> t]

EdgeKey(o, t, i) == [t |-> t, outbound_id |-> o, inbound_id |-> i]

VAll(start_id, limit) == [start_id |-> start_id, limit |-> limit, kind |-> "All"]

VVertices(ids) == [kind |-> "Vertices", ids |-> ids]

VPipe(edge_query, converter, limit) ==
    [limit |-> limit, kind |-> "Pipe", edge_query |-> edge_query, converter |-> converter]

EEdges(keys) == [kind |-> "Edges", keys |-> keys]

EPipe(vertex_query, converter, type_filter, high_filter, low_filter, limit) ==
    [limit |-> limit, kind |-> "Pipe", converter |-> converter,
     vertex_query |-> vertex_query, type_filter |-> type_filter,
     high_filter |-> high_filter, low_filter |-> low_filter]

(***************************************************************************)
(* Sequences: helpers for ORDER BY and LIMIT.                              *)
(*                                                                         *)
(* Throughout, CHOOSE x \in {e(v) : v \in {d}} : TRUE is the value of e(v) *)
(* for v = d, with d evaluated once; actions bind with \E v \in {d}.       *)
(***************************************************************************)
Range(s) == {s[i] : i \in 1 .. Len(s)}

Min(S) == CHOOSE x \in S : \A y \in S : x <= y

\* The first n elements of s (LIMIT n).
Take(s, n) == SubSeq(s, 1, IF n < Len(s) THEN n ELSE Len(s))

RECURSIVE Join(_, _)
\* Vec::join: the pieces with sep between consecutive ones.
Join(pieces, sep) ==
    IF Len(pieces) = 0 THEN << >>
    ELSE IF Len(pieces) = 1 THEN pieces[1]
    ELSE pieces[1] \o sep \o Join(Tail(pieces), sep)

RECURSIVE Flatten(_)
Flatten(ss) == IF Len(ss) = 0 THEN << >> ELSE ss[1] \o Flatten(Tail(ss))

RECURSIVE OrderById(_)
\* The rows of a set in ascending id order; rows of one id keep no order.
OrderById(rows) ==
    IF rows = {} THEN << >>
    ELSE CHOOSE s \in {<<r>> \o OrderById(rows \ {r}) :
                          r \in {CHOOSE x \in rows : \A y \in rows : x.id <= y.id}} : TRUE

RECURSIVE OrderByTimestampDesc(_)
\* The rows of a set in descending update_timestamp order.
OrderByTimestampDesc(rows) ==
    IF rows = {} THEN << >>
    ELSE CHOOSE s \in {<<r>> \o OrderByTimestampDesc(rows \ {r}) :
                          r \in {CHOOSE x \in rows :
                                    \A y \in rows : x.update_timestamp >= y.update_timestamp}} :
             TRUE

(***************************************************************************)
(* CTEQueryBuilder (util.rs).  A template is a sequence of tokens: pieces  *)
(* of SQL text and the two local placeholders "%t" and "%p".               *)
(***************************************************************************)
\* The positional placeholders of the dialect.
Dollars ==
    <<"$1", "$2", "$3", "$4", "$5", "$6", "$7", "$8", "$9", "$10",
      "$11", "$12", "$13", "$14", "$15", "$16", "$17", "$18", "$19", "$20">>

IsDollar(tok) == \E n \in 1 .. Len(Dollars) : Dollars[n] = tok

DollarIndex(tok) == CHOOSE n \in 1 .. Len(Dollars) : Dollars[n] = tok

\* CTEQueryBuilder::new
new == << >>

\* CTEQueryBuilder::push
push(builder, query_template, cte_name, params) ==
    Append(builder, [cte_name |-> cte_name, params |-> params, template |-> query_template])

\* Number of "%p" in the first n tokens of a template.
CountP(template, n) == Cardinality({i \in 1 .. n : template[i] = "%p"})

\* Number of parameters bound by the fragments before fragment i.
ParamsBefore(fragments, i) ==
    Len(Flatten([j \in 1 .. i - 1 |-> fragments[j].params]))

\* The unique name of the CTE that holds fragment i.
CteName(fragments, i) ==
    (IF fragments[i].cte_name = "" THEN "pipe" ELSE fragments[i].cte_name)
        \o "_" \o ToString(i)

\* What "%t" stands for in fragment i: the physical table the leaf names,
\* afterwards the CTE of the fragment pushed just before.
TableOf(fragments, i) ==
    IF i = 1 THEN fragments[1].cte_name ELSE CteName(fragments, i - 1)

\* Fragment i with "%t" and "%p" substituted.
Body(fragments, i) ==
    LET tpl == fragments[i].template
        base == ParamsBefore(fragments, i)
    IN  [k \in 1 .. Len(tpl) |->
            IF tpl[k] = "%t" THEN TableOf(fragments, i)
            ELSE IF tpl[k] = "%p" THEN Dollars[base + CountP(tpl, k)]
            ELSE tpl[k]]

\* The statement WITH name_1 AS (body_1), ... body_tail and its parameters.
Materialize(fragments) ==
    LET n == Len(fragments) IN
    [params |-> Flatten([i \in 1 .. n |-> fragments[i].params]),
     with   |-> [i \in 1 .. n - 1 |->
                    [name |-> CteName(fragments, i), body |-> Body(fragments, i)]],
     body   |-> Body(fragments, n)]

\* A statement written out by hand: no WITH chain.
Statement(body, params) == [params |-> params, with |-> << >>, body |-> body]

\* CTEQueryBuilder::into_query_payload
into_query_payload(builder, final_template, extra_params) ==
    CHOOSE payload \in {Materialize(fragments) :
                           fragments \in {push(builder, final_template, "", extra_params)}} :
        TRUE

(***************************************************************************)
(* Query lowering.                                                         *)
(***************************************************************************)
SelectVertexFrom == "SELECT id, type FROM "

SelectEdgeFrom == "SELECT id, outbound_id, type, inbound_id, update_timestamp FROM "

\* The filters with the two comparisons exchanged.
EdgePipeFilters_Exchanged(q) ==
    (IF q.type_filter # None
        THEN <<[clause |-> <<"type = ", "%p">>, param |-> q.type_filter[1]]>>
        ELSE << >>)
    \o (IF q.high_filter # None
        THEN <<[clause |-> <<"update_timestamp >= ", "%p">>, param |-> q.high_filter[1]]>>
        ELSE << >>)
    \o (IF q.low_filter # None
        THEN <<[clause |-> <<"update_timestamp <= ", "%p">>, param |-> q.low_filter[1]]>>
        ELSE << >>)

\* The filters of an edge pipe, in the order the code pushes them.
EdgePipeFilters(q) ==
    (IF q.type_filter # None
        THEN <<[clause |-> <<"type = ", "%p">>, param |-> q.type_filter[1]]>>
        ELSE << >>)
    \o (IF q.high_filter # None
        THEN <<[clause |-> <<"update_timestamp <= ", "%p">>, param |-> q.high_filter[1]]>>
        ELSE << >>)
    \o (IF q.low_filter # None
        THEN <<[clause |-> <<"update_timestamp >= ", "%p">>, param |-> q.low_filter[1]]>>
        ELSE << >>)

RECURSIVE vertex_query_to_sql(_, _)
RECURSIVE edge_query_to_sql(_, _)

\* The lowering with the two directions of a vertex pipe exchanged.
vertex_query_to_sql_Exchanged(q, sql_query_builder) ==
    IF q.kind = "All" THEN
        IF q.start_id # None
        THEN push(sql_query_builder,
                  <<SelectVertexFrom, "%t", " WHERE id > ", "%p", " ORDER BY id", " LIMIT ", "%p">>,
                  "vertices", <<q.start_id[1], q.limit>>)
        ELSE push(sql_query_builder,
                  <<SelectVertexFrom, "%t", " ORDER BY id", " LIMIT ", "%p">>,
                  "vertices", <<q.limit>>)
    ELSE IF q.kind = "Vertices" THEN
        push(sql_query_builder,
             <<SelectVertexFrom, "%t", " WHERE id IN (">>
                 \o Join([i \in 1 .. Len(q.ids) |-> <<"%p">>], <<", ">>)
                 \o <<")", " ORDER BY id">>,
             "vertices", q.ids)
    ELSE
        push(edge_query_to_sql(q.edge_query, sql_query_builder),
             IF q.converter = "Inbound"
             THEN <<"SELECT id, type FROM vertices WHERE id IN (SELECT outbound_id FROM ",
                    "%t", ")", " ORDER BY id", " LIMIT ", "%p">>
             ELSE <<"SELECT id, type FROM vertices WHERE id IN (SELECT inbound_id FROM ",
                    "%t", ")", " ORDER BY id", " LIMIT ", "%p">>,
             "", <<q.limit>>)

\* The lowering that pushes the fragment of a pipe before it recurses into
\* the inner query.
vertex_query_to_sql_PushFirst(q, sql_query_builder) ==
    IF q.kind = "All" THEN
        IF q.start_id # None
        THEN push(sql_query_builder,
                  <<SelectVertexFrom, "%t", " WHERE id > ", "%p", " ORDER BY id", " LIMIT ", "%p">>,
                  "vertices", <<q.start_id[1], q.limit>>)
        ELSE push(sql_query_builder,
                  <<SelectVertexFrom, "%t", " ORDER BY id", " LIMIT ", "%p">>,
                  "vertices", <<q.limit>>)
    ELSE IF q.kind = "Vertices" THEN
        push(sql_query_builder,
             <<SelectVertexFrom, "%t", " WHERE id IN (">>
                 \o Join([i \in 1 .. Len(q.ids) |-> <<"%p">>], <<", ">>)
                 \o <<")", " ORDER BY id">>,
             "vertices", q.ids)
    ELSE
        edge_query_to_sql(
            q.edge_query,
            push(sql_query_builder,
                 IF q.converter = "Outbound"
                 THEN <<"SELECT id, type FROM vertices WHERE id IN (SELECT outbound_id FROM ",
                        "%t", ")", " ORDER BY id", " LIMIT ", "%p">>
                 ELSE <<"SELECT id, type FROM vertices WHERE id IN (SELECT inbound_id FROM ",
                        "%t", ")", " ORDER BY id", " LIMIT ", "%p">>,
                 "", <<q.limit>>))

\* The lowering that gives All{start_id: Some(s)} the fragment of
\* All{start_id: None}: the scan starts at the smallest id.
vertex_query_to_sql_FromStart(q, sql_query_builder) ==
    IF q.kind = "All" THEN
        push(sql_query_builder,
             <<SelectVertexFrom, "%t", " ORDER BY id", " LIMIT ", "%p">>,
             "vertices", <<q.limit>>)
    ELSE IF q.kind = "Vertices" THEN
        push(sql_query_builder,
             <<SelectVertexFrom, "%t", " WHERE id IN (">>
                 \o Join([i \in 1 .. Len(q.ids) |-> <<"%p">>], <<", ">>)
                 \o <<")", " ORDER BY id">>,
             "vertices", q.ids)
    ELSE
        push(edge_query_to_sql(q.edge_query, sql_query_builder),
             IF q.converter = "Outbound"
             THEN <<"SELECT id, type FROM vertices WHERE id IN (SELECT outbound_id FROM ",
                    "%t", ")", " ORDER BY id", " LIMIT ", "%p">>
             ELSE <<"SELECT id, type FROM vertices WHERE id IN (SELECT inbound_id FROM ",
                    "%t", ")", " ORDER BY id", " LIMIT ", "%p">>,
             "", <<q.limit>>)

vertex_query_to_sql(q, sql_query_builder) ==
    IF q.kind = "All" THEN
        IF q.start_id # None
        THEN push(sql_query_builder,
                  <<SelectVertexFrom, "%t", " WHERE id > ", "%p", " ORDER BY id", " LIMIT ", "%p">>,
                  "vertices", <<q.start_id[1], q.limit>>)
        ELSE push(sql_query_builder,
                  <<SelectVertexFrom, "%t", " ORDER BY id", " LIMIT ", "%p">>,
                  "vertices", <<q.limit>>)
    ELSE IF q.kind = "Vertices" THEN
        LET params_template_builder == [i \in 1 .. Len(q.ids) |-> <<"%p">>]
            params == q.ids
        IN  push(sql_query_builder,
                 <<SelectVertexFrom, "%t", " WHERE id IN (">>
                     \o Join(params_template_builder, <<", ">>)
                     \o <<")", " ORDER BY id">>,
                 "vertices", params)
    ELSE
        LET inner == edge_query_to_sql(q.edge_query, sql_query_builder)
            params == <<q.limit>>
            query_template ==
                IF q.converter = "Outbound"
                THEN <<"SELECT id, type FROM vertices WHERE id IN (SELECT outbound_id FROM ",
                       "%t", ")", " ORDER BY id", " LIMIT ", "%p">>
                ELSE <<"SELECT id, type FROM vertices WHERE id IN (SELECT inbound_id FROM ",
                       "%t", ")", " ORDER BY id", " LIMIT ", "%p">>
        IN  push(inner, query_template, "", params)

\* The lowering that binds the low filter before the high filter, while
\* the template keeps the order of the clauses.
edge_query_to_sql_LowBeforeHigh(q, sql_query_builder) ==
    IF q.kind = "Edges" THEN
        push(sql_query_builder,
             <<SelectEdgeFrom, "%t", " WHERE (outbound_id, type, inbound_id) IN (">>
                 \o Join([i \in 1 .. Len(q.keys) |-> <<"(", "%p", ", ", "%p", ", ", "%p", ")">>],
                         <<", ">>)
                 \o <<")">>,
             "edges",
             Flatten([i \in 1 .. Len(q.keys) |->
                 <<q.keys[i].outbound_id, q.keys[i].t, q.keys[i].inbound_id>>]))
    ELSE
        LET filters == EdgePipeFilters(q)
            where_clause == Join([i \in 1 .. Len(filters) |-> filters[i].clause], <<" AND ">>)
            head ==
                IF q.converter = "Outbound"
                THEN "SELECT id, outbound_id, type, inbound_id, update_timestamp FROM edges WHERE outbound_id IN (SELECT id FROM "
                ELSE "SELECT id, outbound_id, type, inbound_id, update_timestamp FROM edges WHERE inbound_id IN (SELECT id FROM "
        IN  push(vertex_query_to_sql(q.vertex_query, sql_query_builder),
                 IF Len(where_clause) = 0
                 THEN <<head, "%t", ")", " ORDER BY update_timestamp DESC", " LIMIT ", "%p">>
                 ELSE <<head, "%t", ")", " AND ">> \o where_clause
                          \o <<" ORDER BY update_timestamp DESC", " LIMIT ", "%p">>,
                 "",
                 q.type_filter \o q.low_filter \o q.high_filter \o <<q.limit>>)

edge_query_to_sql(q, sql_query_builder) ==
    IF q.kind = "Edges" THEN
        LET params_template_builder ==
                [i \in 1 .. Len(q.keys) |-> <<"(", "%p", ", ", "%p", ", ", "%p", ")">>]
            params ==
                Flatten([i \in 1 .. Len(q.keys) |->
                    <<q.keys[i].outbound_id, q.keys[i].t, q.keys[i].inbound_id>>])
        IN  push(sql_query_builder,
                 <<SelectEdgeFrom, "%t", " WHERE (outbound_id, type, inbound_id) IN (">>
                     \o Join(params_template_builder, <<", ">>)
                     \o <<")">>,
                 "edges", params)
    ELSE
        LET inner == vertex_query_to_sql(q.vertex_query, sql_query_builder)
            filters == EdgePipeFilters(q)
            where_clause_template_builder == [i \in 1 .. Len(filters) |-> filters[i].clause]
            params == [i \in 1 .. Len(filters) |-> filters[i].param] \o <<q.limit>>
            where_clause == Join(where_clause_template_builder, <<" AND ">>)
            head ==
                IF q.converter = "Outbound"
                THEN "SELECT id, outbound_id, type, inbound_id, update_timestamp FROM edges WHERE outbound_id IN (SELECT id FROM "
                ELSE "SELECT id, outbound_id, type, inbound_id, update_timestamp FROM edges WHERE inbound_id IN (SELECT id FROM "
            query_template ==
                IF Len(where_clause) = 0
                THEN <<head, "%t", ")", " ORDER BY update_timestamp DESC", " LIMIT ", "%p">>
                ELSE <<head, "%t", ")", " AND ">> \o where_clause
                         \o <<" ORDER BY update_timestamp DESC", " LIMIT ", "%p">>
        IN  push(inner, query_template, "", params)

(***************************************************************************)
(* The rows a statement of transaction t sees (READ COMMITTED).            *)
(***************************************************************************)
Visible(rows, t) == {r \in rows : r.xmin \in {0, t} /\ (r.xmax = 0 \/ r.xmax # t)}

VertexRow(r) == [id |-> r.id, t |-> r.t]

EdgeRow(r) ==
    [id |-> r.id, t |-> r.t, outbound_id |-> r.outbound_id,
     inbound_id |-> r.inbound_id, update_timestamp |-> r.update_timestamp]

MetaRow(r) == [name |-> r.name, owner_id |-> r.owner_id, value |-> r.value]

\* The four tables as transaction t sees them; t = 0 gives the committed rows.
View(t) ==
    [vertices        |-> {VertexRow(r) : r \in Visible(vertices, t)},
     edges           |-> {EdgeRow(r) : r \in Visible(edges, t)},
     vertex_metadata |-> {MetaRow(r) : r \in Visible(vertex_metadata, t)},
     edge_metadata   |-> {MetaRow(r) : r \in Visible(edge_metadata, t)}]

(***************************************************************************)
(* The database's reading of an emitted statement.  A result is            *)
(* [err, rows]: err is TRUE when the server rejects the statement.         *)
(***************************************************************************)
SqlError == [rows |-> << >>, err |-> TRUE]

SqlRows(rows) == [rows |-> rows, err |-> FALSE]

HeadVerticesOutbound == "SELECT id, type FROM vertices WHERE id IN (SELECT outbound_id FROM "

HeadVerticesInbound == "SELECT id, type FROM vertices WHERE id IN (SELECT inbound_id FROM "

HeadEdgesOutbound ==
    "SELECT id, outbound_id, type, inbound_id, update_timestamp FROM edges WHERE outbound_id IN (SELECT id FROM "

HeadEdgesInbound ==
    "SELECT id, outbound_id, type, inbound_id, update_timestamp FROM edges WHERE inbound_id IN (SELECT id FROM "

\* A name in FROM: a CTE of the statement hides a table of the same name.
IsRelation(name, env) ==
    \/ \E i \in 1 .. Len(env) : env[i].name = name
    \/ name \in {"vertices", "edges"}

Relation(name, env, view) ==
    IF \E i \in 1 .. Len(env) : env[i].name = name
    THEN env[CHOOSE i \in 1 .. Len(env) : env[i].name = name].rows
    ELSE IF name = "vertices" THEN OrderById(view.vertices)
    ELSE OrderById(view.edges)

\* Index of the first ")" token of toks, 0 when there is none.
CloseAt(toks) ==
    IF \E j \in 1 .. Len(toks) : toks[j] = ")"
    THEN Min({j \in 1 .. Len(toks) : toks[j] = ")"})
    ELSE 0

\* The positional parameters among toks, in order.
DollarsIn(toks) == SelectSeq(toks, IsDollar)

\* The first clause of toks applied to rows: [err, rows, rest], rest the
\* tokens that follow the clause.
Clause(toks, rows, params) ==
    LET After(kept, n) == [rows |-> kept, err |-> FALSE, rest |-> SubSeq(toks, n, Len(toks))]
        Rejected == [rows |-> << >>, err |-> TRUE, rest |-> << >>]
    IN
    IF toks[1] = " WHERE id > " THEN
        LET bound == params[DollarIndex(toks[2])]
            Test(r) == r.id > bound
        IN  After(SelectSeq(rows, Test), 3)
    ELSE IF toks[1] = " WHERE id IN (" THEN
        LET close == CloseAt(toks)
            list == DollarsIn(SubSeq(toks, 2, close - 1))
            ids == {params[DollarIndex(list[k])] : k \in 1 .. Len(list)}
            Test(r) == r.id \in ids
        IN  IF close = 0 \/ Len(list) = 0 THEN Rejected
            ELSE After(SelectSeq(rows, Test), close + 1)
    ELSE IF toks[1] = " WHERE (outbound_id, type, inbound_id) IN (" THEN
        LET list == DollarsIn(SubSeq(toks, 2, Len(toks) - 1))
            n == Len(list) \div 3
            keys == {<<params[DollarIndex(list[3 * k - 2])],
                       params[DollarIndex(list[3 * k - 1])],
                       params[DollarIndex(list[3 * k])]>> : k \in 1 .. n}
            Test(r) == <<r.outbound_id, r.t, r.inbound_id>> \in keys
        IN  IF toks[Len(toks)] # ")" \/ Len(list) = 0 \/ Len(list) % 3 # 0 THEN Rejected
            ELSE After(SelectSeq(rows, Test), Len(toks) + 1)
    ELSE IF toks[1] = " AND " THEN
        LET value == params[DollarIndex(toks[3])]
            TestType(r) == r.t = value
            TestHigh(r) == r.update_timestamp <= value
            TestLow(r) == r.update_timestamp >= value
        IN  IF toks[2] = "type = " THEN After(SelectSeq(rows, TestType), 4)
            ELSE IF toks[2] = "update_timestamp <= " THEN After(SelectSeq(rows, TestHigh), 4)
            ELSE IF toks[2] = "update_timestamp >= " THEN After(SelectSeq(rows, TestLow), 4)
            ELSE Rejected
    ELSE IF toks[1] = " ORDER BY id" THEN After(OrderById(Range(rows)), 2)
    ELSE IF toks[1] = " ORDER BY update_timestamp DESC"
        THEN After(OrderByTimestampDesc(Range(rows)), 2)
    ELSE IF toks[1] = " LIMIT " THEN After(Take(rows, params[DollarIndex(toks[2])]), 3)
    ELSE Rejected

RECURSIVE ApplyClauses(_, _, _)
\* WHERE / AND / ORDER BY / LIMIT clauses applied left to right.
ApplyClauses(toks, rows, params) ==
    IF Len(toks) = 0 THEN SqlRows(rows)
    ELSE CHOOSE result \in {IF c.err THEN SqlError ELSE ApplyClauses(c.rest, c.rows, params) :
                               c \in {Clause(toks, rows, params)}} : TRUE

\* SELECT ... FROM <relation> <clauses>, or a pipe's SELECT from the
\* physical table restricted to the ids a relation produces.
Select(body, params, env, view) ==
    IF Len(body) < 2 \/ ~IsRelation(body[2], env) THEN SqlError
    ELSE
        LET From(src) ==
                LET InOut(r) == r.id \in {e.outbound_id : e \in Range(src)}
                    InIn(r) == r.id \in {e.inbound_id : e \in Range(src)}
                    OutIn(r) == r.outbound_id \in {v.id : v \in Range(src)}
                    InboundIn(r) == r.inbound_id \in {v.id : v \in Range(src)}
                    after == SubSeq(body, 4, Len(body))
                IN  IF body[1] \in {SelectVertexFrom, SelectEdgeFrom}
                        THEN ApplyClauses(SubSeq(body, 3, Len(body)), src, params)
                    ELSE IF Len(body) < 3 \/ body[3] # ")" THEN SqlError
                    ELSE IF body[1] = HeadVerticesOutbound
                        THEN ApplyClauses(after, SelectSeq(Relation("vertices", env, view), InOut),
                                          params)
                    ELSE IF body[1] = HeadVerticesInbound
                        THEN ApplyClauses(after, SelectSeq(Relation("vertices", env, view), InIn),
                                          params)
                    ELSE IF body[1] = HeadEdgesOutbound
                        THEN ApplyClauses(after, SelectSeq(Relation("edges", env, view), OutIn),
                                          params)
                    ELSE IF body[1] = HeadEdgesInbound
                        THEN ApplyClauses(after, SelectSeq(Relation("edges", env, view), InboundIn),
                                          params)
                    ELSE SqlError
        IN  CHOOSE result \in {From(src) : src \in {Relation(body[2], env, view)}} : TRUE

RECURSIVE EvalWith(_, _, _, _)
\* The CTEs of a statement evaluated in order: [err, env], env the
\* sequence of [name, rows].
EvalWith(with, params, env, view) ==
    IF Len(with) = 0 THEN [err |-> FALSE, env |-> env]
    ELSE CHOOSE w \in
             {IF r.err THEN [err |-> TRUE, env |-> env]
              ELSE EvalWith(Tail(with), params,
                            Append(env, [rows |-> r.rows, name |-> with[1].name]), view) :
                 r \in {Select(with[1].body, params, env, view)}} : TRUE

(***************************************************************************)
(* The final fragment of each operation, and the server's reading of it.   *)
(***************************************************************************)
\* The projection that reads the table instead of the chain.
FinalGetVertices_FromTable == <<"SELECT id, type FROM ", "vertices">>

FinalGetVertices == <<"SELECT id, type FROM ", "%t">>

FinalDeleteVertices == <<"DELETE FROM vertices WHERE id IN (SELECT id FROM ", "%t", ")">>

FinalGetEdges == <<"SELECT outbound_id, type, inbound_id, update_timestamp FROM ", "%t">>

\* The delete that reads the ids from the table instead of the chain.
FinalDeleteEdges_FromTable == <<"DELETE FROM edges WHERE id IN (SELECT id FROM ", "edges", ")">>

FinalDeleteEdges == <<"DELETE FROM edges WHERE id IN (SELECT id FROM ", "%t", ")">>

FinalGetVertexMetadata ==
    <<"SELECT owner_id, value FROM vertex_metadata WHERE owner_id IN (SELECT id FROM ",
      "%t", ")", " AND name=", "%p">>

FinalSetVertexMetadata ==
    <<"INSERT INTO vertex_metadata (owner_id, name, value) SELECT id, ", "%p", ", ", "%p",
      " FROM ", "%t",
      " ON CONFLICT ON CONSTRAINT vertex_metadata_pkey DO UPDATE SET value=", "%p">>

FinalDeleteVertexMetadata ==
    <<"DELETE FROM vertex_metadata WHERE owner_id IN (SELECT id FROM ", "%t", ")",
      " AND name=", "%p">>

FinalGetEdgeMetadata ==
    <<"SELECT edges.outbound_id, edges.type, edges.inbound_id, edge_metadata.value FROM edge_metadata JOIN edges ON edge_metadata.owner_id=edges.id WHERE owner_id IN (SELECT id FROM ",
      "%t", ")", " AND name=", "%p">>

FinalSetEdgeMetadata ==
    <<"INSERT INTO edge_metadata (owner_id, name, value) SELECT id, ", "%p", ", ", "%p",
      " FROM ", "%t",
      " ON CONFLICT ON CONSTRAINT edge_metadata_pkey DO UPDATE SET value=", "%p">>

FinalDeleteEdgeMetadata ==
    <<"DELETE FROM edge_metadata WHERE owner_id IN (SELECT id FROM ", "%t", ")",
      " AND name=", "%p">>

\* What the last statement of a WITH chain asks for: [err, verb, table,
\* rows, ids, name, value, value2]; ids are the ids of (SELECT id FROM r).
Request(verb, table, rows, ids, name, value, value2) ==
    [ids |-> ids, rows |-> rows, name |-> name, value |-> value, err |-> FALSE,
     verb |-> verb, table |-> table, value2 |-> value2]

BadRequest == [ids |-> {}, rows |-> << >>, name |-> "", value |-> 0, err |-> TRUE,
               verb |-> "", table |-> "", value2 |-> 0]

IdsOf(name, env, view) == {r.id : r \in Range(Relation(name, env, view))}

ParseTail(body, params, env, view) ==
    LET P(k) == params[DollarIndex(body[k])]
        n == Len(body)
    IN
    IF n = 2 /\ body[1] = FinalGetVertices[1] /\ IsRelation(body[2], env)
        THEN Request("select", "vertices", Relation(body[2], env, view), {}, "", 0, 0)
    ELSE IF n = 2 /\ body[1] = FinalGetEdges[1] /\ IsRelation(body[2], env)
        THEN Request("select", "edges", Relation(body[2], env, view), {}, "", 0, 0)
    ELSE IF n = 3 /\ body[1] = FinalDeleteVertices[1] /\ IsRelation(body[2], env) /\ body[3] = ")"
        THEN Request("delete", "vertices", << >>, IdsOf(body[2], env, view), "", 0, 0)
    ELSE IF n = 3 /\ body[1] = FinalDeleteEdges[1] /\ IsRelation(body[2], env) /\ body[3] = ")"
        THEN Request("delete", "edges", << >>, IdsOf(body[2], env, view), "", 0, 0)
    ELSE IF n = 5 /\ body[1] = FinalGetVertexMetadata[1] /\ IsRelation(body[2], env)
            /\ body[3] = ")" /\ body[4] = " AND name=" /\ IsDollar(body[5])
        THEN Request("select", "vertex_metadata", << >>, IdsOf(body[2], env, view), P(5), 0, 0)
    ELSE IF n = 5 /\ body[1] = FinalGetEdgeMetadata[1] /\ IsRelation(body[2], env)
            /\ body[3] = ")" /\ body[4] = " AND name=" /\ IsDollar(body[5])
        THEN Request("select", "edge_metadata", << >>, IdsOf(body[2], env, view), P(5), 0, 0)
    ELSE IF n = 5 /\ body[1] = FinalDeleteVertexMetadata[1] /\ IsRelation(body[2], env)
            /\ body[3] = ")" /\ body[4] = " AND name=" /\ IsDollar(body[5])
        THEN Request("delete", "vertex_metadata", << >>, IdsOf(body[2], env, view), P(5), 0, 0)
    ELSE IF n = 5 /\ body[1] = FinalDeleteEdgeMetadata[1] /\ IsRelation(body[2], env)
            /\ body[3] = ")" /\ body[4] = " AND name=" /\ IsDollar(body[5])
        THEN Request("delete", "edge_metadata", << >>, IdsOf(body[2], env, view), P(5), 0, 0)
    ELSE IF n = 8 /\ body[1] = FinalSetVertexMetadata[1] /\ IsDollar(body[2]) /\ body[3] = ", "
            /\ IsDollar(body[4]) /\ body[5] = " FROM " /\ IsRelation(body[6], env)
            /\ body[7] = FinalSetVertexMetadata[7] /\ IsDollar(body[8])
        THEN Request("upsert", "vertex_metadata", << >>, IdsOf(body[6], env, view), P(2), P(4), P(8))
    ELSE IF n = 8 /\ body[1] = FinalSetEdgeMetadata[1] /\ IsDollar(body[2]) /\ body[3] = ", "
            /\ IsDollar(body[4]) /\ body[5] = " FROM " /\ IsRelation(body[6], env)
            /\ body[7] = FinalSetEdgeMetadata[7] /\ IsDollar(body[8])
        THEN Request("upsert", "edge_metadata", << >>, IdsOf(body[6], env, view), P(2), P(4), P(8))
    ELSE BadRequest

\* The statement as the server understands it in the view of its transaction.
Understand(sql, view) ==
    CHOOSE req \in {IF w.err THEN BadRequest ELSE ParseTail(sql.body, sql.params, w.env, view) :
                       w \in {EvalWith(sql.with, sql.params, << >>, view)}} : TRUE

(***************************************************************************)
(* The server's execution of a statement on behalf of transaction t.       *)
(* An outcome is [err, blocked, rows, db]: blocked when the statement has  *)
(* to wait for a row another open transaction wrote; db the tables after.  *)
(***************************************************************************)
Db == [vertices |-> vertices, edges |-> edges,
       vertex_metadata |-> vertex_metadata, edge_metadata |-> edge_metadata]

\* r was written by a transaction other than t that is still open.
Touched(r, t) == r.xmin \notin {0, t} \/ r.xmax \notin {0, t}

\* rows with the versions in targets deleted by t.
Remove(rows, targets, t) ==
    (rows \ targets) \cup {[r EXCEPT !.xmax = t] : r \in {x \in targets : x.xmin # t}}

RECURSIVE SeqOf(_)
\* The elements of a set in the order a scan happens to produce them.
SeqOf(S) ==
    IF S = {} THEN << >>
    ELSE CHOOSE s \in {<<x>> \o SeqOf(S \ {x}) : x \in {CHOOSE y \in S : TRUE}} : TRUE

Outcome(err, blocked, rows, db) == [rows |-> rows, err |-> err, blocked |-> blocked, db |-> db]

\* The delete on a schema whose foreign keys do not cascade and are not
\* enforced: only the vertex rows go.
DeleteVertexRows_NoCascade(ids, t) ==
    LET vs == {r \in Visible(vertices, t) : r.id \in ids}
    IN  Outcome(FALSE, \E r \in vs : Touched(r, t), << >>,
                [Db EXCEPT !.vertices = Remove(vertices, vs, t)])

\* DELETE FROM vertices WHERE id IN ids, with the cascades of the schema.
DeleteVertexRows(ids, t) ==
    LET vs == {r \in Visible(vertices, t) : r.id \in ids}
        vids == {r.id : r \in vs}
        es == {r \in Visible(edges, t) : r.outbound_id \in vids \/ r.inbound_id \in vids}
        eids == {r.id : r \in es}
        vms == {r \in Visible(vertex_metadata, t) : r.owner_id \in vids}
        ems == {r \in Visible(edge_metadata, t) : r.owner_id \in eids}
        blocked ==
            \/ \E r \in vs : Touched(r, t)
            \/ \E r \in edges :
                   Touched(r, t) /\ (r.outbound_id \in vids \/ r.inbound_id \in vids)
            \/ \E r \in vertex_metadata : Touched(r, t) /\ r.owner_id \in vids
            \/ \E r \in edge_metadata : Touched(r, t) /\ r.owner_id \in eids
    IN  Outcome(FALSE, blocked, << >>,
                [vertices        |-> Remove(vertices, vs, t),
                 edges           |-> Remove(edges, es, t),
                 vertex_metadata |-> Remove(vertex_metadata, vms, t),
                 edge_metadata   |-> Remove(edge_metadata, ems, t)])

\* DELETE FROM edges WHERE id IN ids, with the cascade to edge_metadata.
DeleteEdgeRows(ids, t) ==
    LET es == {r \in Visible(edges, t) : r.id \in ids}
        eids == {r.id : r \in es}
        ems == {r \in Visible(edge_metadata, t) : r.owner_id \in eids}
        blocked ==
            \/ \E r \in es : Touched(r, t)
            \/ \E r \in edge_metadata : Touched(r, t) /\ r.owner_id \in eids
    IN  Outcome(FALSE, blocked, << >>,
                [Db EXCEPT !.edges = Remove(edges, es, t),
                           !.edge_metadata = Remove(edge_metadata, ems, t)])

\* The delete without AND name = ...: every row of the owners goes.
DeleteMetaRows_AnyName(table, ids, name, t) ==
    LET all == IF table = "vertex_metadata" THEN vertex_metadata ELSE edge_metadata
        ms == {r \in Visible(all, t) : r.owner_id \in ids}
    IN  Outcome(FALSE, \E r \in ms : Touched(r, t), << >>,
                IF table = "vertex_metadata"
                THEN [Db EXCEPT !.vertex_metadata = Remove(all, ms, t)]
                ELSE [Db EXCEPT !.edge_metadata = Remove(all, ms, t)])

\* DELETE FROM <metadata table> WHERE owner_id IN ids AND name = name.
DeleteMetaRows(table, ids, name, t) ==
    LET all == IF table = "vertex_metadata" THEN vertex_metadata ELSE edge_metadata
        ms == {r \in Visible(all, t) : r.owner_id \in ids /\ r.name = name}
        blocked == \E r \in ms : Touched(r, t)
    IN  Outcome(FALSE, blocked, << >>,
                IF table = "vertex_metadata"
                THEN [Db EXCEPT !.vertex_metadata = Remove(all, ms, t)]
                ELSE [Db EXCEPT !.edge_metadata = Remove(all, ms, t)])

\* The insert with ON CONFLICT ... DO NOTHING: an owner that has the name
\* keeps its value.
UpsertMetaRows_DoNothing(table, ids, name, value, value2, t) ==
    LET all == IF table = "vertex_metadata" THEN vertex_metadata ELSE edge_metadata
        owners == IF table = "vertex_metadata" THEN vertices ELSE edges
        had == {r.owner_id : r \in {x \in Visible(all, t) : x.owner_id \in ids /\ x.name = name}}
        fresh == {[name |-> name, xmin |-> t, xmax |-> 0,
                   owner_id |-> o, value |-> value] : o \in ids \ had}
        orphan == \E o \in ids : o \notin {r.id : r \in Visible(owners, t)}
    IN  Outcome(orphan, FALSE, << >>,
                IF orphan THEN Db
                ELSE IF table = "vertex_metadata"
                THEN [Db EXCEPT !.vertex_metadata = all \cup fresh]
                ELSE [Db EXCEPT !.edge_metadata = all \cup fresh])

\* INSERT INTO <metadata table> SELECT id, name, value ... ON CONFLICT
\* (owner_id, name) DO UPDATE SET value = value2.
UpsertMetaRows(table, ids, name, value, value2, t) ==
    LET all == IF table = "vertex_metadata" THEN vertex_metadata ELSE edge_metadata
        owners == IF table = "vertex_metadata" THEN vertices ELSE edges
        old == {r \in Visible(all, t) : r.owner_id \in ids /\ r.name = name}
        had == {r.owner_id : r \in old}
        fresh == {[name |-> name, xmin |-> t,
                   xmax |-> 0,
                   owner_id |-> o, value |-> IF o \in had THEN value2 ELSE value] : o \in ids}
        blocked ==
            \/ \E r \in all : Touched(r, t) /\ r.owner_id \in ids /\ r.name = name
            \/ \E r \in owners : Touched(r, t) /\ r.id \in ids /\ r.xmin = 0
        orphan == \E o \in ids : o \notin {r.id : r \in Visible(owners, t)}
        after == Remove(all, old, t) \cup fresh
    IN  Outcome(orphan, blocked, << >>,
                IF orphan THEN Db
                ELSE IF table = "vertex_metadata"
                THEN [Db EXCEPT !.vertex_metadata = after]
                ELSE [Db EXCEPT !.edge_metadata = after])

\* SELECT owner_id, value FROM vertex_metadata ..., and the edge form
\* joined with edges.
SelectMetaRows(table, ids, name, view) ==
    LET vm == {[id |-> r.owner_id, value |-> r.value] :
                  r \in {m \in view.vertex_metadata : m.owner_id \in ids /\ m.name = name}}
        em == {[t |-> p[2].t, outbound_id |-> p[2].outbound_id,
                inbound_id |-> p[2].inbound_id, value |-> p[1].value] :
                  p \in {x \in view.edge_metadata \X view.edges :
                            /\ x[1].owner_id = x[2].id
                            /\ x[1].owner_id \in ids
                            /\ x[1].name = name}}
    IN  SeqOf(IF table = "vertex_metadata" THEN vm ELSE em)

\* The rows a SELECT statement returns in a view.
Answer(sql, view) ==
    CHOOSE rows \in {IF req.table \in {"vertices", "edges"} THEN req.rows
                     ELSE SelectMetaRows(req.table, req.ids, req.name, view) :
                        req \in {Understand(sql, view)}} : TRUE

\* The server runs a lowered statement for transaction t.
Execute(sql, t) ==
    LET Perform(req) ==
            IF req.err THEN Outcome(TRUE, FALSE, << >>, Db)
            ELSE IF req.verb = "select" THEN Outcome(FALSE, FALSE, Answer(sql, View(t)), Db)
            ELSE IF req.verb = "delete" /\ req.table = "vertices"
                THEN DeleteVertexRows(req.ids, t)
            ELSE IF req.verb = "delete" /\ req.table = "edges" THEN DeleteEdgeRows(req.ids, t)
            ELSE IF req.verb = "delete" THEN DeleteMetaRows(req.table, req.ids, req.name, t)
            ELSE UpsertMetaRows(req.table, req.ids, req.name, req.value, req.value2, t)
    IN  CHOOSE out \in {Perform(req) : req \in {Understand(sql, view) : view \in {View(t)}}} :
            TRUE

\* INSERT INTO vertices (id, type) VALUES (id, type).
InsertVertexRow(vertex, t) ==
    LET same == {r \in vertices : r.id = vertex.id}
        blocked == \E r \in same : Touched(r, t)
        duplicate == \E r \in Visible(vertices, t) : r.id = vertex.id
    IN  Outcome(duplicate, blocked, << >>,
                IF duplicate THEN Db
                ELSE [Db EXCEPT !.vertices =
                         @ \cup {[id |-> vertex.id, t |-> vertex.t, xmin |-> t, xmax |-> 0]}])

\* The insert without an arbiter: every call adds a row.
UpsertEdgeRow_AlwaysInsert(id, key, now, t) ==
    Outcome(FALSE, FALSE, << >>,
            [Db EXCEPT !.edges =
                @ \cup {[id |-> id, t |-> key.t, outbound_id |-> key.outbound_id,
                         inbound_id |-> key.inbound_id, update_timestamp |-> now,
                         xmin |-> t, xmax |-> 0]}])

\* The insert with ON CONFLICT ... DO NOTHING: an existing edge keeps its
\* update_timestamp.
UpsertEdgeRow_DoNothing(id, key, now, t) ==
    LET same == {r \in edges : /\ r.outbound_id = key.outbound_id
                               /\ r.t = key.t
                               /\ r.inbound_id = key.inbound_id}
        old == same \cap Visible(edges, t)
        orphan ==
            old = {} /\ \E v \in {key.outbound_id, key.inbound_id} :
                            v \notin {r.id : r \in Visible(vertices, t)}
    IN  Outcome(orphan, \E r \in same : Touched(r, t), << >>,
                IF orphan \/ old # {} THEN Db
                ELSE [Db EXCEPT !.edges =
                         @ \cup {[id |-> id, t |-> key.t, outbound_id |-> key.outbound_id,
                                  inbound_id |-> key.inbound_id, update_timestamp |-> now,
                                  xmin |-> t, xmax |-> 0]}])

\* The insert whose conflict clause also stores the id of the new row.
UpsertEdgeRow_Replace(id, key, now, t) ==
    LET same == {r \in edges : /\ r.outbound_id = key.outbound_id
                               /\ r.t = key.t
                               /\ r.inbound_id = key.inbound_id}
        old == same \cap Visible(edges, t)
        orphan ==
            old = {} /\ \E v \in {key.outbound_id, key.inbound_id} :
                            v \notin {r.id : r \in Visible(vertices, t)}
        row == {[id |-> id, t |-> key.t, outbound_id |-> key.outbound_id,
                 inbound_id |-> key.inbound_id, update_timestamp |-> now,
                 xmin |-> t, xmax |-> 0]}
    IN  Outcome(orphan, \E r \in same : Touched(r, t), << >>,
                IF orphan THEN Db
                ELSE [Db EXCEPT !.edges = Remove(edges, old, t) \cup row])

\* INSERT INTO edges ... VALUES (id, key, CLOCK_TIMESTAMP()) ON CONFLICT
\* ON CONSTRAINT edges_outbound_id_type_inbound_id_ukey DO UPDATE SET
\* update_timestamp = CLOCK_TIMESTAMP(); now is the server's clock reading.
UpsertEdgeRow(id, key, now, t) ==
    LET same == {r \in edges : /\ r.outbound_id = key.outbound_id
                               /\ r.t = key.t
                               /\ r.inbound_id = key.inbound_id}
        old == same \cap Visible(edges, t)
        ends == {r \in vertices : r.id \in {key.outbound_id, key.inbound_id}}
        blocked ==
            \/ \E r \in same : Touched(r, t)
            \/ old = {} /\ \E r \in ends : r.xmin = 0 /\ Touched(r, t)
        orphan ==
            old = {} /\ \E v \in {key.outbound_id, key.inbound_id} :
                            v \notin {r.id : r \in Visible(vertices, t)}
        updated == {[r EXCEPT !.update_timestamp = now, !.xmin = t, !.xmax = 0] : r \in old}
        inserted == {[id |-> id, t |-> key.t, outbound_id |-> key.outbound_id,
                      inbound_id |-> key.inbound_id, update_timestamp |-> now,
                      xmin |-> t, xmax |-> 0]}
    IN  Outcome(orphan, blocked, << >>,
                IF orphan THEN Db
                ELSE IF old # {} THEN [Db EXCEPT !.edges = Remove(edges, old, t) \cup updated]
                ELSE [Db EXCEPT !.edges = @ \cup inserted])

\* COMMIT: the versions t wrote become everybody's, those it deleted go.
CommitRows(rows, t) ==
    {[r EXCEPT !.xmin = IF @ = t THEN 0 ELSE @] : r \in {x \in rows : x.xmax # t}}

\* ROLLBACK: the versions t wrote go, those it deleted stay.
RollbackRows(rows, t) ==
    {[r EXCEPT !.xmax = IF @ = t THEN 0 ELSE @] : r \in {x \in rows : x.xmin # t}}

(***************************************************************************)
(* The transaction surface.  tx[t].state is the state of t's database      *)
(* transaction: "none" (no PostgresTransaction in slot t), "active",       *)
(* "aborted" (a statement failed: the server refuses every statement but   *)
(* ROLLBACK), "lost" (the connection is gone).  tx[t].errored says that an *)
(* operation of t returned Err.  A fault is what the driver meets while it *)
(* runs a statement: "none", "db_error" (the server fails the statement:   *)
(* serialization failure, deadlock) or "conn_lost"; the create operations  *)
(* can also meet "savepoint_lost", the connection going while the          *)
(* SAVEPOINT statement is sent.  tx[t].made is history: the vertex ids   *)
(* for which create_vertex returned true in t, less those a                *)
(* delete_vertices of t removed since.                                     *)
(***************************************************************************)
NoTx == [state |-> "none", errored |-> FALSE, made |-> {}]

\* The record of the last call: the operation, the transaction that made
\* it, its argument, the fault the driver met, the Result it returned.
Call(op, t, arg, fault, res) ==
    [t |-> t, op |-> op, arg |-> arg, fault |-> fault, res |-> res]

Ok(x) == [ok |-> TRUE, val |-> x]

Err == [ok |-> FALSE, val |-> "error"]

\* res is Ok(val).
Returned(res, val) == res.ok /\ res.val = val

StatementFaults == {"none", "db_error", "conn_lost"}

CreateFaults == StatementFaults \cup {"savepoint_lost"}

\* Every operation ends here: the tables, the transaction and the record
\* of the call.
Return(op, t, arg, fault, res, state, db) ==
    \* a fault is drawn only for a statement that is sent
    /\ (tx[t].state # "active" => fault = "none")
    /\ vertices' = db.vertices
    /\ edges' = db.edges
    /\ vertex_metadata' = db.vertex_metadata
    /\ edge_metadata' = db.edge_metadata
    /\ tx' = [tx EXCEPT ![t] =
                 [state   |-> state,
                  errored |-> @.errored \/ ~res.ok,
                  made    |-> IF op = "delete_vertices"
                                  THEN {id \in @.made :
                                           \E r \in db.vertices : r.id = id /\ r.xmin = t}
                              ELSE IF op = "create_vertex" /\ res.ok /\ res.val
                                  THEN @.made \cup {arg.id}
                              ELSE @.made]]
    /\ last' = Call(op, t, arg, fault, res)
    /\ UNCHANGED <<conn, pool>>

\* A driver call wrapped in a savepoint of its own that is rolled back
\* when the statement fails: the error is returned, the outer transaction
\* goes on.
Driver_KeepsTransaction(sql, t, fault) ==
    IF tx[t].state # "active"
        THEN [rows |-> << >>, err |-> TRUE, blocked |-> FALSE, db |-> Db, state |-> tx[t].state]
    ELSE IF fault # "none"
        THEN [rows |-> << >>, err |-> TRUE, blocked |-> FALSE, db |-> Db, state |-> "active"]
    ELSE CHOOSE result \in
             {[rows |-> out.rows, err |-> out.err, blocked |-> out.blocked,
               db |-> IF out.err THEN Db ELSE out.db, state |-> "active"] :
                 out \in {Execute(sql, t)}} : TRUE

\* self.trans.query / self.trans.execute followed by `?`: the statement's
\* outcome as the driver reports it, [err, blocked, rows, db, state].
Driver(sql, t, fault) ==
    IF tx[t].state # "active"
        THEN [rows |-> << >>, err |-> TRUE, blocked |-> FALSE, db |-> Db, state |-> tx[t].state]
    ELSE IF fault = "conn_lost"
        THEN [rows |-> << >>, err |-> TRUE, blocked |-> FALSE, db |-> Db, state |-> "lost"]
    ELSE IF fault = "db_error"
        THEN [rows |-> << >>, err |-> TRUE, blocked |-> FALSE, db |-> Db, state |-> "aborted"]
    ELSE CHOOSE result \in
             {[rows |-> out.rows, err |-> out.err, blocked |-> out.blocked,
               db |-> IF out.err THEN Db ELSE out.db,
               state |-> IF out.err THEN "aborted" ELSE "active"] :
                 out \in {Execute(sql, t)}} : TRUE

\* A connection of the pool: idle in the pool or checked out, with or
\* without a database transaction open on it.
Slot(idle, open, returned_open) ==
    [idle |-> idle, open |-> open, returned_open |-> returned_open]

\* self.pool.get(): the connection leaves the pool.
get(slot) == [slot EXCEPT !.idle = FALSE]

\* The drop of a PooledConnection: the connection goes back to the pool as
\* it is.
put_back(slot) == [slot EXCEPT !.idle = TRUE, !.returned_open = slot.open]

\* conn.transaction(): BEGIN was accepted.
begin(slot) == [slot EXCEPT !.open = TRUE]

\* The drop of the outer postgres Transaction: COMMIT or ROLLBACK ends the
\* database transaction of the connection (a lost connection has none).
finish_outer(slot) == [slot EXCEPT !.open = FALSE]

\* The fields of PostgresTransaction in the order of their declaration,
\* which is the order in which they are dropped.
Fields_ConnFirst == <<"conn", "trans">>

Fields == <<"trans", "conn">>

DropField(field, slot) == IF field = "trans" THEN finish_outer(slot) ELSE put_back(slot)

\* What the driver can meet when it begins the outer transaction.
BeginFaults == {"none", "begin_error"}

\* Datastore::transaction and PostgresTransaction::new: any idle
\* connection is taken from the pool; when BEGIN fails the connection is
\* dropped, which puts it back, and no PostgresTransaction is made.
transaction(t, fault) ==
    /\ tx[t].state = "none"
    /\ \E c \in Conns :
          /\ pool[c].idle
          /\ IF fault = "none"
                THEN /\ tx' = [tx EXCEPT ![t] = [NoTx EXCEPT !.state = "active"]]
                     /\ conn' = [conn EXCEPT ![t] = c]
                     /\ pool' = [pool EXCEPT ![c] = begin(get(@))]
                     /\ last' = Call("transaction", t, 0, fault, Ok(0))
                ELSE /\ tx' = tx
                     /\ conn' = conn
                     /\ pool' = [pool EXCEPT ![c] = put_back(get(@))]
                     /\ last' = Call("transaction", t, 0, fault, Err)
    /\ wire' = <<Statement(<<"BEGIN">>, << >>)>>
    /\ UNCHANGED <<tables, clock, uuid_ctr, savepoints>>

\* The drop of a PostgresTransaction: the outer transaction was set to
\* commit when it was made, so the driver sends COMMIT; the fields are
\* dropped one after the other.
drop(t) ==
    /\ tx[t].state # "none"
    /\ LET commit == tx[t].state = "active"
           End(rows) == IF commit THEN CommitRows(rows, t) ELSE RollbackRows(rows, t)
       IN  /\ vertices' = End(vertices)
           /\ edges' = End(edges)
           /\ vertex_metadata' = End(vertex_metadata)
           /\ edge_metadata' = End(edge_metadata)
           /\ last' = Call("drop", t, tx[t], "none", Ok(commit))
    /\ tx' = [tx EXCEPT ![t] = NoTx]
    /\ conn' = [conn EXCEPT ![t] = 0]
    /\ pool' = [pool EXCEPT ![conn[t]] = DropField(Fields[2], DropField(Fields[1], @))]
    /\ wire' = <<Statement(<<"COMMIT">>, << >>)>>
    /\ savepoints' = [savepoints EXCEPT ![t] = << >>]
    /\ UNCHANGED <<clock, uuid_ctr>>

\* Transaction::savepoint(name): SAVEPOINT name was accepted, a nested
\* transaction is open.
savepoint(open, name) == Append(open, name)

\* The nested transaction that is closed only when it was set to commit.
finish_OnCommitOnly(open, commit) ==
    IF commit THEN SubSeq(open, 1, Len(open) - 1) ELSE open

\* The drop of the nested transaction at the end of the call: it sends
\* RELEASE name when it was set to commit and ROLLBACK TO name when it was
\* set to roll back, and is closed either way.
finish(open, commit) == SubSeq(open, 1, Len(open) - 1)

SavepointStatement(name) == Statement(<<"SAVEPOINT ", name>>, << >>)

ReleaseStatement(name) == Statement(<<"RELEASE ", name>>, << >>)

RollbackToStatement(name) == Statement(<<"ROLLBACK TO ", name>>, << >>)

InsertVertexStatement(vertex) ==
    Statement(<<"INSERT INTO vertices (id, type) VALUES (", "$1", ", ", "$2", ")">>,
              <<vertex.id, vertex.t>>)

InsertEdgeStatement(id, key) ==
    Statement(<<"INSERT INTO edges (id, outbound_id, type, inbound_id, update_timestamp) VALUES (",
                "$1", ", ", "$2", ", ", "$3", ", ", "$4",
                ", CLOCK_TIMESTAMP()) ON CONFLICT ON CONSTRAINT edges_outbound_id_type_inbound_id_ukey DO UPDATE SET update_timestamp=CLOCK_TIMESTAMP()">>,
              <<id, key.outbound_id, key.t, key.inbound_id>>)

\* The savepoint of a create operation from self.trans.savepoint(name)? to
\* the end of the call: opened says that the SAVEPOINT statement was
\* accepted, is_err is result.is_err() of the insert.
Scope(t, name, insert, opened, is_err) ==
    IF ~opened THEN
        /\ wire' = <<SavepointStatement(name)>>
        /\ savepoints' = savepoints
    ELSE
        /\ wire' = <<SavepointStatement(name), insert,
                     IF is_err THEN RollbackToStatement(name) ELSE ReleaseStatement(name)>>
        /\ savepoints' = [savepoints EXCEPT ![t] = finish(savepoint(@, name), ~is_err)]

\* create_vertex that releases its savepoint on both branches: after a
\* failed insert the outer transaction stays aborted.
create_vertex_NoRollback(t, vertex, fault) ==
    /\ tx[t].state = "active"
    /\ fault = "none"
    /\ UNCHANGED <<clock, uuid_ctr>>
    /\ \E result \in {InsertVertexRow(vertex, t)} :
       /\ ~result.blocked
       /\ Scope(t, "create_vertex", InsertVertexStatement(vertex), TRUE, FALSE)
       /\ Return("create_vertex", t, vertex, fault, Ok(~result.err),
                 IF result.err THEN "aborted" ELSE "active", result.db)

create_vertex(t, vertex, fault) ==
    /\ tx[t].state # "none"
    /\ UNCHANGED <<clock, uuid_ctr>>
    /\ LET insert == InsertVertexStatement(vertex) IN
       IF tx[t].state # "active" THEN
           \* self.trans.savepoint("create_vertex")? fails
           /\ Scope(t, "create_vertex", insert, FALSE, FALSE)
           /\ Return("create_vertex", t, vertex, fault, Err, tx[t].state, Db)
       ELSE IF fault = "savepoint_lost" THEN
           /\ Scope(t, "create_vertex", insert, FALSE, FALSE)
           /\ Return("create_vertex", t, vertex, fault, Err, "lost", Db)
       ELSE IF fault = "conn_lost" THEN
           \* result.is_err(): Ok(false); ROLLBACK TO cannot be delivered
           /\ Scope(t, "create_vertex", insert, TRUE, TRUE)
           /\ Return("create_vertex", t, vertex, fault, Ok(FALSE), "lost", Db)
       ELSE IF fault = "db_error" THEN
           \* result.is_err(): the savepoint is rolled back, Ok(false)
           /\ Scope(t, "create_vertex", insert, TRUE, TRUE)
           /\ Return("create_vertex", t, vertex, fault, Ok(FALSE), "active", Db)
       ELSE
           \E result \in {InsertVertexRow(vertex, t)} :
           /\ ~result.blocked
           /\ Scope(t, "create_vertex", insert, TRUE, result.err)
           /\ Return("create_vertex", t, vertex, fault, Ok(~result.err), "active", result.db)

\* create_edge that releases its savepoint on both branches: after a
\* failed insert the outer transaction stays aborted.
create_edge_NoRollback(t, key, fault) ==
    /\ tx[t].state = "active"
    /\ fault = "none"
    /\ uuid_ctr < MaxCalls
    /\ uuid_ctr' = uuid_ctr + 1
    /\ clock' = clock + 1
    /\ \E results \in {UpsertEdgeRow(uuid_ctr + 1, key, clock + 1, t)} :
       /\ ~results.blocked
       /\ Scope(t, "set_edge", InsertEdgeStatement(uuid_ctr + 1, key), TRUE, FALSE)
       /\ Return("create_edge", t, key, fault, Ok(~results.err),
                 IF results.err THEN "aborted" ELSE "active", results.db)

create_edge(t, key, fault) ==
    /\ tx[t].state # "none"
    /\ uuid_ctr < MaxCalls
    /\ uuid_ctr' = uuid_ctr + 1
    /\ LET id == uuid_ctr + 1
           insert == InsertEdgeStatement(uuid_ctr + 1, key)
       IN
       IF tx[t].state # "active" THEN
           /\ clock' = clock
           /\ Scope(t, "set_edge", insert, FALSE, FALSE)
           /\ Return("create_edge", t, key, fault, Err, tx[t].state, Db)
       ELSE IF fault = "savepoint_lost" THEN
           /\ clock' = clock
           /\ Scope(t, "set_edge", insert, FALSE, FALSE)
           /\ Return("create_edge", t, key, fault, Err, "lost", Db)
       ELSE IF fault = "conn_lost" THEN
           /\ clock' = clock
           /\ Scope(t, "set_edge", insert, TRUE, TRUE)
           /\ Return("create_edge", t, key, fault, Ok(FALSE), "lost", Db)
       ELSE IF fault = "db_error" THEN
           /\ clock' = clock + 1
           /\ Scope(t, "set_edge", insert, TRUE, TRUE)
           /\ Return("create_edge", t, key, fault, Ok(FALSE), "active", Db)
       ELSE
           \E results \in {UpsertEdgeRow(id, key, clock + 1, t)} :
           /\ ~results.blocked
           /\ clock' = clock + 1
           /\ Scope(t, "set_edge", insert, TRUE, results.err)
           /\ Return("create_edge", t, key, fault, Ok(~results.err), "active", results.db)

Unit(rows) == << >>

\* The loop that stops one row short.
ToVertices_LastRowLost(rows) ==
    [i \in 1 .. Len(rows) - 1 |-> Vertex(rows[i].id, rows[i].t)]

ToVertices(rows) == [i \in 1 .. Len(rows) |-> Vertex(rows[i].id, rows[i].t)]

ToEdges(rows) ==
    [i \in 1 .. Len(rows) |->
        [key |-> EdgeKey(rows[i].outbound_id, rows[i].t, rows[i].inbound_id),
         update_datetime |-> rows[i].update_timestamp]]

ToVertexMetadata(rows) ==
    [i \in 1 .. Len(rows) |-> [id |-> rows[i].id, value |-> rows[i].value]]

ToEdgeMetadata(rows) ==
    [i \in 1 .. Len(rows) |->
        [value |-> rows[i].value,
         key |-> EdgeKey(rows[i].outbound_id, rows[i].t, rows[i].inbound_id)]]

\* The value an operation makes of the rows of its statement.
FromRows(op, rows) ==
    IF op = "get_vertices" THEN ToVertices(rows)
    ELSE IF op = "get_edges" THEN ToEdges(rows)
    ELSE IF op = "get_vertex_metadata" THEN ToVertexMetadata(rows)
    ELSE IF op = "get_edge_metadata" THEN ToEdgeMetadata(rows)
    ELSE Unit(rows)

\* The operations that lower a query, append their final fragment and run
\* the statement: op names the operation.
Lowered(op, t, arg, fault, sql) ==
    /\ tx[t].state # "none"
    /\ UNCHANGED <<clock, uuid_ctr, savepoints>>
    /\ \E statement \in {sql} :
       /\ wire' = <<statement>>
       /\ \E out \in {Driver(statement, t, fault)} :
          /\ ~out.blocked
          /\ Return(op, t, arg, fault, IF out.err THEN Err ELSE Ok(FromRows(op, out.rows)),
                    out.state, out.db)

\* The statement get_vertices sends.
get_vertices_sql(q) ==
    into_query_payload(vertex_query_to_sql(q, new), FinalGetVertices, << >>)

get_vertices(t, q, fault) ==
    Lowered("get_vertices", t, q, fault, get_vertices_sql(q))

delete_vertices(t, q, fault) ==
    Lowered("delete_vertices", t, q, fault,
            into_query_payload(vertex_query_to_sql(q, new), FinalDeleteVertices, << >>))

get_vertex_count(t, fault) ==
    /\ tx[t].state # "none"
    /\ wire' = <<Statement(<<"SELECT COUNT(*) FROM vertices">>, << >>)>>
    /\ UNCHANGED <<clock, uuid_ctr, savepoints>>
    /\ IF tx[t].state # "active" THEN
           Return("get_vertex_count", t, 0, fault, Err, tx[t].state, Db)
       ELSE IF fault # "none" THEN
           Return("get_vertex_count", t, 0, fault, Err,
                  IF fault = "conn_lost" THEN "lost" ELSE "aborted", Db)
       ELSE
           Return("get_vertex_count", t, 0, fault,
                  Ok(Cardinality(Visible(vertices, t))), "active", Db)

\* The statement get_edges sends.
get_edges_sql(q) ==
    into_query_payload(edge_query_to_sql(q, new), FinalGetEdges, << >>)

get_edges(t, q, fault) ==
    Lowered("get_edges", t, q, fault, get_edges_sql(q))

delete_edges(t, q, fault) ==
    Lowered("delete_edges", t, q, fault,
            into_query_payload(edge_query_to_sql(q, new), FinalDeleteEdges, << >>))

get_vertex_metadata(t, q, name, fault) ==
    Lowered("get_vertex_metadata", t, [name |-> name, q |-> q], fault,
            into_query_payload(vertex_query_to_sql(q, new), FinalGetVertexMetadata, <<name>>))

set_vertex_metadata(t, q, name, value, fault) ==
    Lowered("set_vertex_metadata", t, [name |-> name, q |-> q, value |-> value], fault,
            into_query_payload(vertex_query_to_sql(q, new), FinalSetVertexMetadata,
                               <<name, value, value>>))

delete_vertex_metadata(t, q, name, fault) ==
    Lowered("delete_vertex_metadata", t, [name |-> name, q |-> q], fault,
            into_query_payload(vertex_query_to_sql(q, new), FinalDeleteVertexMetadata, <<name>>))

get_edge_metadata(t, q, name, fault) ==
    Lowered("get_edge_metadata", t, [name |-> name, q |-> q], fault,
            into_query_payload(edge_query_to_sql(q, new), FinalGetEdgeMetadata, <<name>>))

set_edge_metadata(t, q, name, value, fault) ==
    Lowered("set_edge_metadata", t, [name |-> name, q |-> q, value |-> value], fault,
            into_query_payload(edge_query_to_sql(q, new), FinalSetEdgeMetadata,
                               <<name, value, value>>))

delete_edge_metadata(t, q, name, fault) ==
    Lowered("delete_edge_metadata", t, [name |-> name, q |-> q], fault,
            into_query_payload(edge_query_to_sql(q, new), FinalDeleteEdgeMetadata, <<name>>))

(***************************************************************************)
(* Specifications.                                                         *)
(***************************************************************************)
Init ==
    /\ vertices = {}
    /\ edges = {}
    /\ vertex_metadata = {}
    /\ edge_metadata = {}
    /\ clock = 0
    /\ uuid_ctr = 0
    /\ tx = [t \in Tx |-> NoTx]
    /\ last = Call("init", 0, 0, "none", Ok(0))
    /\ wire = << >>
    /\ savepoints = [t \in Tx |-> << >>]
    /\ conn = [t \in Tx |-> 0]
    /\ pool = [c \in Conns |-> Slot(TRUE, FALSE, FALSE)]

\* The inputs the callers of Spec draw from.
VertexInputs == {Vertex(1, "person"), Vertex(2, "person")}

KeyInputs == {EdgeKey(1, "knows", 2)}

VertexQueryInputs == {VVertices(<<1>>)}

\* Concurrent transactions that create, count, delete and end, with the
\* faults the driver can meet.
Next ==
    \E t \in Tx :
        \/ \E f \in BeginFaults : transaction(t, f)
        \/ drop(t)
        \/ \E v \in VertexInputs, f \in CreateFaults : create_vertex(t, v, f)
        \/ \E k \in KeyInputs, f \in CreateFaults : create_edge(t, k, f)
        \/ \E f \in StatementFaults : get_vertex_count(t, f)
        \/ \E q \in VertexQueryInputs, f \in StatementFaults : delete_vertices(t, q, f)

Spec == Init /\ [][Next]_vars

\* The queries of SpecStore.
StoreVertexQueries == {VVertices(<<1>>), VVertices(<<1, 2>>)}

StoreEdgeQueries ==
    {EEdges(<<EdgeKey(1, "knows", 2)>>),
     EPipe(VVertices(<<2>>), "Outbound", None, None, None, 10)}

StoreKeys == {EdgeKey(1, "knows", 2), EdgeKey(2, "knows", 1)}

MetadataNames == {"name"}

MetadataValues == {"v1", "v2"}

\* The store at the start of a caller's transaction.
InitStore ==
    /\ vertices = {}
    /\ edges = {}
    /\ vertex_metadata = {}
    /\ edge_metadata = {}
    /\ clock = 0
    /\ uuid_ctr = 0
    /\ tx = [t \in Tx |-> IF t = 1 THEN [NoTx EXCEPT !.state = "active"] ELSE NoTx]
    /\ last = Call("transaction", 1, 0, "none", Ok(0))
    /\ wire = <<Statement(<<"BEGIN">>, << >>)>>
    /\ savepoints = [t \in Tx |-> << >>]
    /\ conn = [t \in Tx |-> IF t = 1 THEN 1 ELSE 0]
    /\ pool = [c \in Conns |-> IF c = 1 THEN Slot(FALSE, TRUE, FALSE) ELSE Slot(TRUE, FALSE, FALSE)]

\* One transaction from its start to its drop: the operations that create,
\* delete or carry metadata.
NextStore ==
    \E t \in {1} :
        \/ drop(t)
        \/ \E v \in VertexInputs : create_vertex(t, v, "none")
        \/ \E k \in StoreKeys : create_edge(t, k, "none")
        \/ \E q \in StoreVertexQueries :
              \/ delete_vertices(t, q, "none")
              \/ \E n \in MetadataNames :
                    \/ get_vertex_metadata(t, q, n, "none")
                    \/ delete_vertex_metadata(t, q, n, "none")
                    \/ \E v \in MetadataValues : set_vertex_metadata(t, q, n, v, "none")
        \/ \E q \in StoreEdgeQueries :
              \/ delete_edges(t, q, "none")
              \/ \E n \in MetadataNames :
                    \/ get_edge_metadata(t, q, n, "none")
                    \/ delete_edge_metadata(t, q, n, "none")
                    \/ \E v \in MetadataValues : set_edge_metadata(t, q, n, v, "none")

SpecStore == InitStore /\ [][NextStore]_vars

\* The empty lists.
EmptyVertexQueries == {VVertices(<< >>)}

EmptyEdgeQueries == {EEdges(<< >>)}

\* Every operation built on the lowering, called with an empty list or,
\* for the two reads, with one element.
NextEmpty ==
    \E t \in {1} :
        \/ transaction(t, "none")
        \/ drop(t)
        \/ \E v \in VertexInputs : create_vertex(t, v, "none")
        \/ \E k \in KeyInputs : create_edge(t, k, "none")
        \/ \E q \in EmptyVertexQueries \cup VertexQueryInputs : get_vertices(t, q, "none")
        \/ \E q \in EmptyEdgeQueries \cup {EEdges(<<k>>) : k \in KeyInputs} :
              get_edges(t, q, "none")
        \/ \E q \in EmptyVertexQueries :
              \/ delete_vertices(t, q, "none")
              \/ \E n \in MetadataNames :
                    \/ get_vertex_metadata(t, q, n, "none")
                    \/ delete_vertex_metadata(t, q, n, "none")
                    \/ \E v \in MetadataValues : set_vertex_metadata(t, q, n, v, "none")
        \/ \E q \in EmptyEdgeQueries :
              \/ delete_edges(t, q, "none")
              \/ \E n \in MetadataNames :
                    \/ get_edge_metadata(t, q, n, "none")
                    \/ delete_edge_metadata(t, q, n, "none")
                    \/ \E v \in MetadataValues : set_edge_metadata(t, q, n, v, "none")

SpecEmpty == Init /\ [][NextEmpty]_vars

\* The edges a store of SpecQuery can hold: the edge of QueryKeys[i] has
\* the surrogate id i.
QueryKeys ==
    <<EdgeKey(1, "knows", 2), EdgeKey(1, "knows", 3),
      EdgeKey(2, "likes", 3), EdgeKey(3, "knows", 1)>>

\* The vertex queries piped into get_edges, the edge queries piped into
\* get_vertices.
PipedVertexQueries ==
    {VVertices(<<1, 2>>), VPipe(EEdges(<<QueryKeys[1], QueryKeys[2]>>), "Inbound", 10)}

PipedEdgeQueries ==
    {EEdges(<<QueryKeys[1], QueryKeys[2]>>),
     EEdges(<<QueryKeys[3], QueryKeys[4], QueryKeys[1]>>),
     EPipe(VVertices(<<1, 2>>), "Outbound", None, None, None, 2)}

Directions == {"Outbound", "Inbound"}

Limits == {1, 10}

VertexPipes ==
    {VPipe(eq, d, l) : eq \in PipedEdgeQueries, d \in Directions, l \in Limits}

EdgePipes ==
    {EPipe(vq, d, tf, high, low, l) :
        vq \in PipedVertexQueries, d \in Directions, tf \in {None, Some("knows")},
        high \in {None, Some(2)}, low \in {None, Some(2)}, l \in {2}}

\* The update_timestamp of the edge of QueryKeys[i]: all different, and not
\* in the order of the ids (create_edge on an existing edge moves its
\* timestamp and keeps its id).
QueryTimestamps == <<2, 1, 3, 4>>

\* A committed store read by one open transaction: vertices 1, 2, 3 and
\* any of the edges of QueryKeys.
InitQuery ==
    /\ vertices = {[id |-> i, t |-> "person", xmin |-> 0, xmax |-> 0] : i \in 1 .. 3}
    /\ \E held \in SUBSET (1 .. Len(QueryKeys)) :
          edges = {[id |-> i,
                    t |-> QueryKeys[i].t,
                    outbound_id |-> QueryKeys[i].outbound_id,
                    inbound_id |-> QueryKeys[i].inbound_id,
                    update_timestamp |-> QueryTimestamps[i],
                    xmin |-> 0, xmax |-> 0] : i \in held}
    /\ vertex_metadata = {}
    /\ edge_metadata = {}
    /\ clock = Len(QueryKeys)
    /\ uuid_ctr = Len(QueryKeys)
    /\ tx = [t \in Tx |-> IF t = 1 THEN [NoTx EXCEPT !.state = "active"] ELSE NoTx]
    /\ last = Call("transaction", 1, 0, "none", Ok(0))
    /\ wire = <<Statement(<<"BEGIN">>, << >>)>>
    /\ savepoints = [t \in Tx |-> << >>]
    /\ conn = [t \in Tx |-> IF t = 1 THEN 1 ELSE 0]
    /\ pool = [c \in Conns |-> IF c = 1 THEN Slot(FALSE, TRUE, FALSE) ELSE Slot(TRUE, FALSE, FALSE)]

\* The piped reads.
NextQuery ==
    \E t \in {1} :
        \/ \E q \in VertexPipes : get_vertices(t, q, "none")
        \/ \E q \in EdgePipes : get_edges(t, q, "none")

SpecQuery == InitQuery /\ [][NextQuery]_vars

\* The query trees of SpecLower: every variant, every combination of the
\* three filters of an edge pipe, pipes nested up to four nodes deep.
VertexTrees ==
    {VAll(None, 2), VAll(Some(1), 2), VVertices(<<1, 2>>),
     VPipe(EEdges(<<QueryKeys[1], QueryKeys[2]>>), "Inbound", 10),
     VPipe(EPipe(VVertices(<<1>>), "Outbound", Some("knows"), Some(4), Some(1), 3),
           "Inbound", 10),
     VPipe(EPipe(VPipe(EEdges(<<QueryKeys[1]>>), "Inbound", 1),
                 "Outbound", None, Some(4), None, 2),
           "Outbound", 3)}

EdgeTrees ==
    {EEdges(<<QueryKeys[1], QueryKeys[3]>>),
     EPipe(VPipe(EEdges(<<QueryKeys[1], QueryKeys[2]>>), "Inbound", 3),
           "Outbound", None, None, Some(2), 10)}
    \cup {EPipe(VAll(Some(1), 3), "Inbound", tf, high, low, 2) :
              tf \in {None, Some("knows")}, high \in {None, Some(4)}, low \in {None, Some(1)}}

\* The trees given to the operations that delete or carry metadata.
WrittenVertexTrees ==
    {VVertices(<<1, 2>>),
     VPipe(EPipe(VVertices(<<1>>), "Outbound", Some("knows"), Some(4), Some(1), 3),
           "Inbound", 10)}

WrittenEdgeTrees ==
    {EEdges(<<QueryKeys[1], QueryKeys[3]>>),
     EPipe(VAll(Some(1), 3), "Inbound", Some("knows"), Some(4), Some(1), 2)}

\* A committed store of three vertices and the four edges of QueryKeys,
\* used by one open transaction.
InitLower ==
    /\ vertices = {[id |-> i, t |-> "person", xmin |-> 0, xmax |-> 0] : i \in 1 .. 3}
    /\ edges = {[id |-> i,
                 t |-> QueryKeys[i].t,
                 outbound_id |-> QueryKeys[i].outbound_id,
                 inbound_id |-> QueryKeys[i].inbound_id,
                 update_timestamp |-> QueryTimestamps[i],
                 xmin |-> 0, xmax |-> 0] : i \in 1 .. Len(QueryKeys)}
    /\ vertex_metadata = {}
    /\ edge_metadata = {}
    /\ clock = Len(QueryKeys)
    /\ uuid_ctr = Len(QueryKeys)
    /\ tx = [t \in Tx |-> IF t = 1 THEN [NoTx EXCEPT !.state = "active"] ELSE NoTx]
    /\ last = Call("transaction", 1, 0, "none", Ok(0))
    /\ wire = <<Statement(<<"BEGIN">>, << >>)>>
    /\ savepoints = [t \in Tx |-> << >>]
    /\ conn = [t \in Tx |-> IF t = 1 THEN 1 ELSE 0]
    /\ pool = [c \in Conns |-> IF c = 1 THEN Slot(FALSE, TRUE, FALSE) ELSE Slot(TRUE, FALSE, FALSE)]

\* Every operation built on the lowering, each with nested query trees.
NextLower ==
    \E t \in {1} :
        \/ \E q \in VertexTrees : get_vertices(t, q, "none")
        \/ \E q \in EdgeTrees : get_edges(t, q, "none")
        \/ \E q \in WrittenVertexTrees :
              \/ delete_vertices(t, q, "none")
              \/ \E n \in MetadataNames :
                    \/ get_vertex_metadata(t, q, n, "none")
                    \/ delete_vertex_metadata(t, q, n, "none")
                    \/ set_vertex_metadata(t, q, n, "v1", "none")
        \/ \E q \in WrittenEdgeTrees :
              \/ delete_edges(t, q, "none")
              \/ \E n \in MetadataNames :
                    \/ get_edge_metadata(t, q, n, "none")
                    \/ delete_edge_metadata(t, q, n, "none")
                    \/ set_edge_metadata(t, q, n, "v1", "none")

SpecLower == InitLower /\ [][NextLower]_vars

\* The names and queries of SpecMeta: vertex 4 and the edge 3 -> 1 are not
\* in its store, so the last query of each kind produces nothing.
ScopedNames == {"name", "score"}

ScopedVertexQueries == {VVertices(<<1>>), VVertices(<<1, 2>>), VVertices(<<4>>)}

ScopedEdgeQueries == {EEdges(<<QueryKeys[1]>>), EEdges(<<QueryKeys[4]>>)}

\* A committed store of three vertices and the edges 1 -> 2 and 1 -> 3,
\* where vertex 3 and the edge 1 -> 3 carry metadata, used by one open
\* transaction.
InitMeta ==
    /\ vertices = {[id |-> i, t |-> "person", xmin |-> 0, xmax |-> 0] : i \in 1 .. 3}
    /\ edges = {[id |-> i,
                 t |-> QueryKeys[i].t,
                 outbound_id |-> QueryKeys[i].outbound_id,
                 inbound_id |-> QueryKeys[i].inbound_id,
                 update_timestamp |-> QueryTimestamps[i],
                 xmin |-> 0, xmax |-> 0] : i \in {1, 2}}
    /\ vertex_metadata =
          {[name |-> "name", xmin |-> 0, xmax |-> 0, owner_id |-> 3, value |-> "v0"]}
    /\ edge_metadata =
          {[name |-> "name", xmin |-> 0, xmax |-> 0, owner_id |-> 2, value |-> "v0"]}
    /\ clock = Len(QueryKeys)
    /\ uuid_ctr = Len(QueryKeys)
    /\ tx = [t \in Tx |-> IF t = 1 THEN [NoTx EXCEPT !.state = "active"] ELSE NoTx]
    /\ last = Call("transaction", 1, 0, "none", Ok(0))
    /\ wire = <<Statement(<<"BEGIN">>, << >>)>>
    /\ savepoints = [t \in Tx |-> << >>]
    /\ conn = [t \in Tx |-> IF t = 1 THEN 1 ELSE 0]
    /\ pool = [c \in Conns |-> IF c = 1 THEN Slot(FALSE, TRUE, FALSE) ELSE Slot(TRUE, FALSE, FALSE)]

\* The metadata writes.
NextMeta ==
    \E t \in {1}, n \in ScopedNames :
        \/ \E q \in ScopedVertexQueries :
              \/ set_vertex_metadata(t, q, n, "v1", "none")
              \/ delete_vertex_metadata(t, q, n, "none")
        \/ \E q \in ScopedEdgeQueries :
              \/ set_edge_metadata(t, q, n, "v1", "none")
              \/ delete_edge_metadata(t, q, n, "none")

SpecMeta == InitMeta /\ [][NextMeta]_vars

\* The queries of SpecDelete: key lists, a pipe whose limit keeps only the
\* most recent edge, a pipe with a type and a high filter, a pipe over All.
DeletedEdgeQueries ==
    {EEdges(<<QueryKeys[1]>>),
     EEdges(<<QueryKeys[3], QueryKeys[4]>>),
     EPipe(VVertices(<<1, 2>>), "Outbound", None, None, None, 1),
     EPipe(VVertices(<<1>>), "Outbound", Some("knows"), Some(1), None, 10),
     EPipe(VAll(Some(1), 10), "Inbound", None, None, Some(2), 2)}

\* A committed store of three vertices, any of the edges of QueryKeys and
\* metadata on vertex 1, used by one open transaction.
InitDelete ==
    /\ vertices = {[id |-> i, t |-> "person", xmin |-> 0, xmax |-> 0] : i \in 1 .. 3}
    /\ \E held \in SUBSET (1 .. Len(QueryKeys)) :
          edges = {[id |-> i,
                    t |-> QueryKeys[i].t,
                    outbound_id |-> QueryKeys[i].outbound_id,
                    inbound_id |-> QueryKeys[i].inbound_id,
                    update_timestamp |-> QueryTimestamps[i],
                    xmin |-> 0, xmax |-> 0] : i \in held}
    /\ vertex_metadata =
          {[name |-> "name", xmin |-> 0, xmax |-> 0, owner_id |-> 1, value |-> "v0"]}
    /\ edge_metadata = {}
    /\ clock = Len(QueryKeys)
    /\ uuid_ctr = Len(QueryKeys)
    /\ tx = [t \in Tx |-> IF t = 1 THEN [NoTx EXCEPT !.state = "active"] ELSE NoTx]
    /\ last = Call("transaction", 1, 0, "none", Ok(0))
    /\ wire = <<Statement(<<"BEGIN">>, << >>)>>
    /\ savepoints = [t \in Tx |-> << >>]
    /\ conn = [t \in Tx |-> IF t = 1 THEN 1 ELSE 0]
    /\ pool = [c \in Conns |-> IF c = 1 THEN Slot(FALSE, TRUE, FALSE) ELSE Slot(TRUE, FALSE, FALSE)]

\* Edge metadata is set on all edges from the vertices 1 and 2, and edges
\* are deleted.
NextDelete ==
    \E t \in {1} :
        \/ set_edge_metadata(t, EPipe(VVertices(<<1, 2>>), "Outbound", None, None, None, 10),
                             "name", "v1", "none")
        \/ \E q \in DeletedEdgeQueries : delete_edges(t, q, "none")

SpecDelete == InitDelete /\ [][NextDelete]_vars

\* The vertices of SpecRoundTrip: two ids, two types, one id offered with
\* both types.
RoundTripVertices == {Vertex(1, "person"), Vertex(1, "place"), Vertex(2, "place")}

\* One transaction that creates, deletes and reads back single vertices and
\* edges.
NextRoundTrip ==
    \E t \in {1} :
        \/ \E v \in RoundTripVertices : create_vertex(t, v, "none")
        \/ \E k \in StoreKeys : create_edge(t, k, "none")
        \/ \E v \in RoundTripVertices :
              \/ get_vertices(t, VVertices(<<v.id>>), "none")
              \/ delete_vertices(t, VVertices(<<v.id>>), "none")
        \/ \E k \in StoreKeys :
              \/ get_edges(t, EEdges(<<k>>), "none")
              \/ delete_edges(t, EEdges(<<k>>), "none")

SpecRoundTrip == InitStore /\ [][NextRoundTrip]_vars

\* The ids a store of SpecAll can hold.
AllIds == {1, 2, 3, 4}

\* All{start_id, limit}: from the beginning or after an id (0 is below every
\* stored id, 4 the largest), with limits 0, 1, 2 and one above every store.
AllQueries ==
    {VAll(s, k) : s \in {None} \cup {Some(i) : i \in {0, 1, 2, 4}}, k \in {0, 1, 2, 10}}

\* A committed store of any of the vertices of AllIds, read by one open
\* transaction.
InitAll ==
    /\ \E held \in SUBSET AllIds :
          vertices = {[id |-> i, t |-> "person", xmin |-> 0, xmax |-> 0] : i \in held}
    /\ edges = {}
    /\ vertex_metadata = {}
    /\ edge_metadata = {}
    /\ clock = 0
    /\ uuid_ctr = 0
    /\ tx = [t \in Tx |-> IF t = 1 THEN [NoTx EXCEPT !.state = "active"] ELSE NoTx]
    /\ last = Call("transaction", 1, 0, "none", Ok(0))
    /\ wire = <<Statement(<<"BEGIN">>, << >>)>>
    /\ savepoints = [t \in Tx |-> << >>]
    /\ conn = [t \in Tx |-> IF t = 1 THEN 1 ELSE 0]
    /\ pool = [c \in Conns |-> IF c = 1 THEN Slot(FALSE, TRUE, FALSE) ELSE Slot(TRUE, FALSE, FALSE)]

\* The range reads.
NextAll == \E t \in {1}, q \in AllQueries : get_vertices(t, q, "none")

SpecAll == InitAll /\ [][NextAll]_vars

(***************************************************************************)
(* What the operations answer, for the statements of the claims.           *)
(***************************************************************************)
KeyOf(e) == EdgeKey(e.outbound_id, e.t, e.inbound_id)

\* What get_edges(q) returns in a view.
EdgesRead(view, q) == ToEdges(Answer(get_edges_sql(q), view))

\* What get_vertices(q) returns in a view.
VerticesRead(view, q) == ToVertices(Answer(get_vertices_sql(q), view))

\* The committed rows, and each open transaction's view.
Views == {View(t) : t \in 0 .. NumTx}

(***************************************************************************)
(* Claims.                                                                 *)
(***************************************************************************)
\* The step is a call of op by t that met no fault in an active transaction.
Called(op, t) ==
    /\ last'.op = op
    /\ last'.t = t
    /\ last'.fault = "none"
    /\ tx[t].state = "active"

\* C1: within one transaction a create_vertex of an id the transaction
\* created before returns false, changes nothing and leaves the
\* transaction usable (active, no error recorded); a create_vertex of an
\* id the transaction does not see returns true; and get_vertex_count
\* succeeds with the number of vertices the transaction sees, which is the
\* number of vertices it created when nothing was committed before.
C1_CreateVertexTwice ==
    [][\A t \in Tx :
           LET v == last'.arg
           IN
           /\ Called("create_vertex", t) =>
                 /\ v.id \in tx[t].made =>
                       /\ Returned(last'.res, FALSE)
                       /\ tx'[t] = tx[t]
                       /\ tables' = tables
                 /\ v.id \notin {r.id : r \in View(t).vertices} =>
                       /\ Returned(last'.res, TRUE)
                       /\ tx'[t].state = "active"
                       /\ v \in View(t)'.vertices
           /\ Called("get_vertex_count", t) =>
                 /\ Returned(last'.res, Cardinality(View(t).vertices))
                 /\ tx'[t] = tx[t]
                 /\ View(0).vertices = {} =>
                       Returned(last'.res, Cardinality(tx[t].made))
      ]_vars

\* C1 witness: the second create_vertex of an id in one transaction has
\* returned false on an otherwise empty store, the transaction still active.
C1_Witness ==
    /\ last.op = "create_vertex"
    /\ last.fault = "none"
    /\ Returned(last.res, FALSE)
    /\ last.arg.id \in tx[last.t].made
    /\ tx[last.t].state = "active"
    /\ View(0).vertices = {}

\* C2: the committed rows and every transaction's view hold at most one
\* edge per key (outbound_id, type, inbound_id), and right after a
\* create_edge(K) that returned true the caller sees exactly one edge K.
C2_OneEdgePerKey ==
    /\ \A view \in Views :
          \A e1 \in view.edges, e2 \in view.edges : KeyOf(e1) = KeyOf(e2) => e1 = e2
    /\ (last.op = "create_edge" /\ last.res.ok /\ last.res.val) =>
          Cardinality({e \in View(last.t).edges : KeyOf(e) = last.arg}) = 1

\* C2 witness: a create_edge(K) has returned true on an edge K that another
\* call created before, while a second transaction is open.
C2_Witness ==
    /\ last.op = "create_edge"
    /\ last.res.ok /\ last.res.val
    /\ \E e \in View(last.t).edges : KeyOf(e) = last.arg /\ e.id < uuid_ctr
    /\ \E u \in Tx : u # last.t /\ tx[u].state = "active"

\* C3: a create_edge(K) on a key the caller sees returns true, and the
\* update_timestamp get_edges(Edges{[K]}) reads after it is greater than
\* the one it read before; the committed update_timestamp of a key never
\* decreases.
C3_TimestampRefreshed ==
    [][/\ \A t \in Tx, k \in KeyInputs :
           LET q == EEdges(<<k>>)
           IN
           (Called("create_edge", t) /\ last'.arg = k /\ EdgesRead(View(t), q) # << >>) =>
                 /\ Returned(last'.res, TRUE)
                 /\ Len(EdgesRead(View(t)', q)) = 1
                 /\ EdgesRead(View(t)', q)[1].update_datetime
                        > EdgesRead(View(t), q)[1].update_datetime
       /\ \A a \in View(0).edges, b \in View(0)'.edges :
             KeyOf(a) = KeyOf(b) => b.update_timestamp >= a.update_timestamp
      ]_vars

\* C3 witness: create_edge has returned true for an edge that existed: the
\* edge keeps an older id and carries the newest timestamp.
C3_Witness ==
    /\ last.op = "create_edge"
    /\ last.fault = "none"
    /\ Returned(last.res, TRUE)
    /\ \E e \in View(last.t).edges :
          KeyOf(e) = last.arg /\ e.id < uuid_ctr /\ e.update_timestamp = clock

\* C4: a create_vertex or create_edge whose driver met a failure
\* (connection lost, statement failed by the server) returns an error.
C4_DriverFailurePropagates ==
    (last.op \in {"create_vertex", "create_edge"} /\ last.fault # "none") => ~last.res.ok

\* C5: the drop of a transaction in which every operation returned Ok, on a
\* live connection, commits: the committed rows become what the
\* transaction saw; the drop of a transaction in which an operation
\* returned an error leaves the committed rows as they were; and no step
\* but the drop of a transaction changes the committed rows.
C5_CommitOrRollback ==
    [][/\ \A t \in Tx :
             (last'.op = "drop" /\ last'.t = t) =>
                 /\ (~tx[t].errored /\ tx[t].state # "lost") => View(0)' = View(t)
                 /\ tx[t].errored => View(0)' = View(0)
       /\ last'.op # "drop" => View(0)' = View(0)
      ]_vars

\* C5 witness: a transaction that had created a vertex and then got an
\* error from an operation was dropped, and the vertex is not committed.
C5_Witness ==
    /\ last.op = "drop"
    /\ last.arg.errored
    /\ last.arg.made # {}
    /\ \E id \in last.arg.made : id \notin {r.id : r \in View(0).vertices}

\* The operations that lower a query and carry a name with it.
MetadataOps ==
    {"get_vertex_metadata", "set_vertex_metadata", "delete_vertex_metadata",
     "get_edge_metadata", "set_edge_metadata", "delete_edge_metadata"}

\* Every operation built on the lowering.
LoweredOps ==
    {"get_vertices", "delete_vertices", "get_edges", "delete_edges"} \cup MetadataOps

\* The query of a recorded call of one of LoweredOps.
QueryOf(call) == IF call.op \in MetadataOps THEN call.arg.q ELSE call.arg

IsEmptyQuery(q) ==
    \/ q.kind = "Vertices" /\ q.ids = << >>
    \/ q.kind = "Edges" /\ q.keys = << >>

\* A pushed fragment holds an IN clause with an empty list.
EmptyIn(fragments) ==
    \E i \in 1 .. Len(fragments) :
        LET tpl == fragments[i].template IN
        \E k \in 1 .. Len(tpl) - 1 :
            /\ tpl[k] \in {" WHERE id IN (", " WHERE (outbound_id, type, inbound_id) IN ("}
            /\ tpl[k + 1] = ")"

\* C6: an operation built on the lowering that is called with
\* Vertices{ids: []} or Edges{keys: []} in an active transaction returns Ok
\* with the empty result, and the fragments its query lowers to hold no IN
\* clause with an empty list.
C6_EmptyInputs ==
    [][\A t \in Tx :
          (/\ last'.op \in LoweredOps
           /\ last'.t = t
           /\ last'.fault = "none"
           /\ tx[t].state = "active"
           /\ IsEmptyQuery(QueryOf(last'))) =>
              /\ Returned(last'.res, << >>)
              /\ ~EmptyIn(IF QueryOf(last').kind = "Vertices"
                              THEN vertex_query_to_sql(QueryOf(last'), new)
                          ELSE edge_query_to_sql(QueryOf(last'), new))
      ]_vars

\* No row of a view names an owner or an endpoint the view does not hold.
NoDangling(view) ==
    LET ids == {v.id : v \in view.vertices} IN
    /\ \A e \in view.edges : e.outbound_id \in ids /\ e.inbound_id \in ids
    /\ \A m \in view.vertex_metadata : m.owner_id \in ids
    /\ \A m \in view.edge_metadata : m.owner_id \in {e.id : e \in view.edges}

\* C7: in the committed rows and in every transaction's view no edge names
\* a missing endpoint and no metadata row a missing owner; and a
\* delete_vertices(q) that returns Ok removes exactly the vertices q
\* produced, the edges that touch them, the metadata of those vertices and
\* of those edges, and nothing else.
C7_NoDanglingRows ==
    [][/\ \A view \in Views : NoDangling(view)
       /\ \A view \in Views' : NoDangling(view)
       /\ \A t \in Tx :
             (Called("delete_vertices", t) /\ last'.res.ok) =>
                 LET before == View(t)
                     after == View(t)'
                     gone == {v.id : v \in Range(VerticesRead(before, last'.arg))}
                     kept == {e \in before.edges :
                                 e.outbound_id \notin gone /\ e.inbound_id \notin gone}
                 IN  /\ after.vertices = {v \in before.vertices : v.id \notin gone}
                     /\ after.edges = kept
                     /\ after.vertex_metadata =
                            {m \in before.vertex_metadata : m.owner_id \notin gone}
                     /\ after.edge_metadata =
                            {m \in before.edge_metadata :
                                m.owner_id \in {e.id : e \in kept}}
      ]_vars

\* C7 witness: delete_vertices(Vertices{[1]}) has returned Ok in a
\* transaction that created edges; vertex 2 and its metadata are still
\* there, vertex 1, the edges and their metadata are not.
C7_Witness ==
    /\ last.op = "delete_vertices"
    /\ last.res.ok
    /\ last.arg.ids = <<1>>
    /\ uuid_ctr > 0
    /\ {v.id : v \in View(last.t).vertices} = {2}
    /\ View(last.t).vertex_metadata # {}
    /\ View(last.t).edges = {}
    /\ View(last.t).edge_metadata = {}

\* A metadata table holds at most one row per (owner_id, name).
OnePerOwnerAndName(rows) ==
    \A a \in rows, b \in rows : (a.owner_id = b.owner_id /\ a.name = b.name) => a = b

\* C8: every view holds at most one metadata row per (owner, name); after
\* a set_vertex_metadata(q, name, v) that returns Ok every vertex q
\* produced has exactly one row of that name, with value v, whatever it had
\* before; get_vertex_metadata(q, name) returns one entry per vertex q
\* produced that has the name, with the stored value; the same for the
\* edge operations, per edge q produced.
C8_MetadataUpsert ==
    [][/\ \A view \in Views' :
             /\ OnePerOwnerAndName(view.vertex_metadata)
             /\ OnePerOwnerAndName(view.edge_metadata)
       /\ \A t \in Tx :
             LET a == last'.arg
                 got == last'.res.val
                 Named(rows, owners) ==
                     {m \in rows : m.owner_id \in owners /\ m.name = a.name}
             IN
             /\ (Called("set_vertex_metadata", t) /\ last'.res.ok) =>
                   \A v \in Range(VerticesRead(View(t), a.q)) :
                       Named(View(t)'.vertex_metadata, {v.id}) =
                           {[name |-> a.name, owner_id |-> v.id, value |-> a.value]}
             /\ (Called("get_vertex_metadata", t) /\ last'.res.ok) =>
                   LET owners == {v.id : v \in Range(VerticesRead(View(t), a.q))}
                       stored == Named(View(t).vertex_metadata, owners)
                   IN  /\ Len(got) = Cardinality(stored)
                       /\ Range(got) = {[id |-> m.owner_id, value |-> m.value] : m \in stored}
             /\ (Called("set_edge_metadata", t) /\ last'.res.ok) =>
                   \A e \in Range(Answer(get_edges_sql(a.q), View(t))) :
                       Named(View(t)'.edge_metadata, {e.id}) =
                           {[name |-> a.name, owner_id |-> e.id, value |-> a.value]}
             /\ (Called("get_edge_metadata", t) /\ last'.res.ok) =>
                   LET es == Range(Answer(get_edges_sql(a.q), View(t)))
                       stored == Named(View(t).edge_metadata, {e.id : e \in es})
                   IN  /\ Len(got) = Cardinality(stored)
                       /\ Range(got) =
                              {[value |-> m.value, key |-> KeyOf(e)] :
                                  <<e, m>> \in {p \in es \X stored : p[2].owner_id = p[1].id}}
      ]_vars

\* C8 witness: get_vertex_metadata(Vertices{[1, 2]}, name) has returned
\* one entry for vertex 1 and one for vertex 2, both with the value v2, and
\* the edge the transaction created carries v2 too.
C8_Witness ==
    /\ last.op = "get_vertex_metadata"
    /\ last.res.ok
    /\ last.arg.q.ids = <<1, 2>>
    /\ Range(last.res.val) = {[id |-> 1, value |-> "v2"], [id |-> 2, value |-> "v2"]}
    /\ \E m \in View(last.t).edge_metadata : m.value = "v2"

\* C9: get_vertices(Pipe{edge_query, converter, limit}), which reads and
\* changes no table, returns Ok with vertices of the vertices table whose
\* id is the inbound_id (Inbound) or outbound_id (Outbound) of an edge
\* get_edges(edge_query) produces, each once, in ascending id order: all
\* of them when they are at most limit, otherwise the limit smallest ids.
C9_VertexPipe ==
    (last.op = "get_vertices" /\ last.fault = "none" /\ last.arg.kind = "Pipe") =>
        LET q == last.arg
            got == last.res.val
            produced == Range(EdgesRead(View(last.t), q.edge_query))
            ends == {IF q.converter = "Inbound" THEN e.key.inbound_id
                     ELSE e.key.outbound_id : e \in produced}
            qualify == {v \in View(last.t).vertices : v.id \in ends}
        IN  /\ last.res.ok
            /\ Range(got) \subseteq qualify
            /\ \A i \in 1 .. Len(got), j \in 1 .. Len(got) :
                  i < j => got[i].id < got[j].id
            /\ Len(got) = Min({q.limit, Cardinality(qualify)})
            /\ \A v \in qualify \ Range(got), w \in Range(got) : w.id < v.id

\* C9 witness: with the edges 1 -> 2 and 1 -> 3 in the store,
\* get_vertices(Pipe(Edges{[1 -> 2, 1 -> 3]}, Inbound, 10)) has returned
\* the vertices 2 and 3 in that order.
C9_Witness ==
    /\ last.op = "get_vertices"
    /\ last.arg = VPipe(EEdges(<<QueryKeys[1], QueryKeys[2]>>), "Inbound", 10)
    /\ {QueryKeys[1], QueryKeys[2]} \subseteq {KeyOf(e) : e \in View(last.t).edges}
    /\ Returned(last.res, <<Vertex(2, "person"), Vertex(3, "person")>>)

\* C10: get_edges(Pipe{vertex_query, converter, type_filter, high_filter,
\* low_filter, limit}), which reads and changes no table, returns Ok with
\* edges whose outbound_id (Outbound) or inbound_id (Inbound) is a vertex
\* get_vertices(vertex_query) produces and that pass every filter that is
\* present (type = type_filter, update_timestamp <= high_filter,
\* update_timestamp >= low_filter), in descending update_timestamp order:
\* all of them when they are at most limit, otherwise the limit most recent.
C10_EdgePipe ==
    (last.op = "get_edges" /\ last.fault = "none" /\ last.arg.kind = "Pipe") =>
        LET q == last.arg
            got == last.res.val
            from == {v.id : v \in Range(VerticesRead(View(last.t), q.vertex_query))}
            Passes(e) ==
                /\ (IF q.converter = "Inbound" THEN e.inbound_id ELSE e.outbound_id) \in from
                /\ q.type_filter # None => e.t = q.type_filter[1]
                /\ q.high_filter # None => e.update_timestamp <= q.high_filter[1]
                /\ q.low_filter # None => e.update_timestamp >= q.low_filter[1]
            qualify == {[key |-> KeyOf(e), update_datetime |-> e.update_timestamp] :
                           e \in {x \in View(last.t).edges : Passes(x)}}
        IN  /\ last.res.ok
            /\ Range(got) \subseteq qualify
            /\ \A i \in 1 .. Len(got), j \in 1 .. Len(got) :
                  i < j => got[i].update_datetime > got[j].update_datetime
            /\ Len(got) = Min({q.limit, Cardinality(qualify)})
            /\ \A e \in qualify \ Range(got), w \in Range(got) :
                  w.update_datetime > e.update_datetime

\* C10 witness: vertex 1 has outgoing edges at the timestamps 2 and 1 and
\* vertex 2 one at 3; get_edges(Pipe(Vertices{[1, 2]}, Outbound, no type,
\* high = 2, low = 2, 2)) has returned exactly the edge at 2.
C10_Witness ==
    /\ last.op = "get_edges"
    /\ last.arg = EPipe(VVertices(<<1, 2>>), "Outbound", None, Some(2), Some(2), 2)
    /\ {e.update_timestamp : e \in {x \in View(last.t).edges : x.outbound_id \in {1, 2}}}
           = {1, 2, 3}
    /\ Returned(last.res, <<[key |-> QueryKeys[1], update_datetime |-> 2]>>)

\* C11: get_vertices(All{start_id, limit}), which changes no table, returns
\* Ok with vertices of the store whose id is greater than start_id when one
\* is given (start_id itself is never returned), in ascending id order: all
\* of them when they are at most limit, otherwise the limit smallest ids.
C11_AllOrderedAndLimited ==
    (last.op = "get_vertices" /\ last.fault = "none" /\ last.arg.kind = "All") =>
        LET q == last.arg
            got == last.res.val
            qualify == {v \in View(last.t).vertices :
                           q.start_id # None => v.id > q.start_id[1]}
        IN  /\ last.res.ok
            /\ Range(got) \subseteq qualify
            /\ \A i \in 1 .. Len(got), j \in 1 .. Len(got) :
                  i < j => got[i].id < got[j].id
            /\ Len(got) = Min({q.limit, Cardinality(qualify)})
            /\ \A v \in qualify \ Range(got), w \in Range(got) : w.id < v.id

\* C11 witness: on the store of the vertices 1, 2, 3, 4,
\* get_vertices(All{start_id: Some(1), limit: 2}) has returned the vertices
\* 2 and 3 in that order.
C11_Witness ==
    /\ last.op = "get_vertices"
    /\ last.arg = VAll(Some(1), 2)
    /\ {v.id : v \in View(last.t).vertices} = AllIds
    /\ Returned(last.res, <<Vertex(2, "person"), Vertex(3, "person")>>)

\* C12: in a transaction, right after a create_vertex(v) that returned true
\* the query Vertices{[v.id]} produces exactly [v], id and type; right
\* after a create_edge(K) that returned true the query Edges{[K]} produces
\* exactly one edge, with key K; what these queries produce stays the same
\* (for an edge: the same key) through every step that does not delete the
\* vertex or the edge (delete_vertices of the vertex or of an endpoint of
\* the edge, delete_edges of the edge); and get_vertices(Vertices{[id]}) and
\* get_edges(Edges{[K]}) return what their query produces.
C12_RoundTrip ==
    [][\A t \in Tx :
          LET One(id) == VVertices(<<id>>)
              Keys(view, k) ==
                  [i \in 1 .. Len(EdgesRead(view, EEdges(<<k>>))) |->
                      EdgesRead(view, EEdges(<<k>>))[i].key]
              VertexDeleted(id) ==
                  last'.op = "delete_vertices" /\ id \in Range(last'.arg.ids)
              EdgeDeleted(k) ==
                  \/ last'.op = "delete_edges" /\ k \in Range(last'.arg.keys)
                  \/ VertexDeleted(k.outbound_id)
                  \/ VertexDeleted(k.inbound_id)
          IN
          /\ (Called("create_vertex", t) /\ Returned(last'.res, TRUE)) =>
                VerticesRead(View(t)', One(last'.arg.id)) = <<last'.arg>>
          /\ (Called("create_edge", t) /\ Returned(last'.res, TRUE)) =>
                Keys(View(t)', last'.arg) = <<last'.arg>>
          /\ \A v \in RoundTripVertices :
                (/\ last'.t = t
                 /\ VerticesRead(View(t), One(v.id)) = <<v>>
                 /\ ~VertexDeleted(v.id)) =>
                    VerticesRead(View(t)', One(v.id)) = <<v>>
          /\ \A k \in StoreKeys :
                (/\ last'.t = t
                 /\ Keys(View(t), k) = <<k>>
                 /\ ~EdgeDeleted(k)) =>
                    Keys(View(t)', k) = <<k>>
          /\ Called("get_vertices", t) =>
                Returned(last'.res, VerticesRead(View(t), last'.arg))
          /\ Called("get_edges", t) =>
                Returned(last'.res, EdgesRead(View(t), last'.arg))
      ]_vars

\* C12 witness: the transaction created the vertices 1 and 2 and an edge
\* between them, and get_vertices(Vertices{[2]}) has returned exactly the
\* vertex 2 with the type it was created with.
C12_Witness ==
    /\ last.op = "get_vertices"
    /\ last.arg = VVertices(<<2>>)
    /\ Returned(last.res, <<Vertex(2, "place")>>)
    /\ tx[last.t].made = {1, 2}
    /\ View(last.t).edges # {}

\* q is a vertex query (All, Vertices or a pipe over an edge query).
IsVertexQuery(q) == q.kind \in {"All", "Vertices"} \/ "edge_query" \in DOMAIN q

RECURSIVE Nodes(_)
\* The nodes of a query tree on the path from its leaf to its root.
Nodes(q) ==
    IF q.kind # "Pipe" THEN <<q>>
    ELSE Append(Nodes(IF IsVertexQuery(q) THEN q.edge_query ELSE q.vertex_query), q)

\* The fragments the lowering of q leaves in a builder that was empty.
LoweringOf(q) ==
    IF IsVertexQuery(q) THEN vertex_query_to_sql(q, new) ELSE edge_query_to_sql(q, new)

\* The bodies of a statement in the order of the text: the CTEs, the tail.
BodiesOf(sql) == [i \in 1 .. Len(sql.with) |-> sql.with[i].body] \o <<sql.body>>

\* The value (as an Option) that the k-th placeholder of a body, found at
\* index j, has to carry, read off the text in front of it: node is the
\* query node the body was pushed for, or the argument of the call for the
\* body of the operation's own fragment.
WantedBy(node, body, j, k) ==
    LET before == body[j - 1] IN
    IF before = " WHERE id > " THEN node.start_id
    ELSE IF before = " LIMIT " THEN Some(node.limit)
    ELSE IF before = "type = " THEN node.type_filter
    ELSE IF before = "update_timestamp <= " THEN node.high_filter
    ELSE IF before = "update_timestamp >= " THEN node.low_filter
    ELSE IF before = " AND name=" THEN Some(node.name)
    ELSE IF before \in {FinalSetVertexMetadata[1], FinalSetEdgeMetadata[1]} THEN Some(node.name)
    ELSE IF "value" \in DOMAIN node THEN Some(node.value)
    ELSE IF node.kind = "Vertices" THEN Some(node.ids[k])
    ELSE IF node.kind = "Edges" THEN
        LET key == node.keys[((k - 1) \div 3) + 1]
        IN  Some(<<key.outbound_id, key.t, key.inbound_id>>[((k - 1) % 3) + 1])
    ELSE None

\* C13: for every call of an operation built on the lowering, each
\* fragment its query lowers to has as many %p as parameters; the
\* statement sent, with N parameters, carries $1 .. $N in the order of the
\* text, each once; the parameters of the query's fragments come first, in
\* the order of the fragments (inner before outer), those of the
\* operation's own fragment last; and every placeholder is bound to the
\* value the text in front of it asks for (start id, list element, type,
\* high, low, limit, name, value).
C13_PlaceholdersAndParameters ==
    last.op \in LoweredOps =>
        LET q == QueryOf(last)
            nodes == Nodes(q)
            fragments == LoweringOf(q)
            sent == wire[1]
            bodies == BodiesOf(sent)
            N == Len(sent.params)
            inner == Flatten([i \in 1 .. Len(fragments) |-> fragments[i].params])
            NodeOf(i) == IF i <= Len(nodes) THEN nodes[i] ELSE last.arg
        IN  /\ Len(fragments) = Len(nodes)
            /\ Len(bodies) = Len(nodes) + 1
            /\ \A i \in 1 .. Len(fragments) :
                  CountP(fragments[i].template, Len(fragments[i].template))
                      = Len(fragments[i].params)
            /\ DollarsIn(Flatten(bodies)) = [n \in 1 .. N |-> Dollars[n]]
            /\ Len(inner) <= N
            /\ ToString(SubSeq(sent.params, 1, Len(inner))) = ToString(inner)
            /\ \A i \in 1 .. Len(bodies) :
                  \A j \in 2 .. Len(bodies[i]) :
                      IsDollar(bodies[i][j]) =>
                          ToString(Some(sent.params[DollarIndex(bodies[i][j])]))
                              = ToString(WantedBy(NodeOf(i), bodies[i], j,
                                                  Len(DollarsIn(SubSeq(bodies[i], 1, j)))))

\* C13 witness: set_edge_metadata on an edge pipe with the three filters
\* over All{start_id: Some(1), limit: 3} has sent a statement with nine
\* parameters: start id, limit; type, high, low, limit; name, value, value.
C13_Witness ==
    /\ last.op = "set_edge_metadata"
    /\ last.arg.q.kind = "Pipe"
    /\ last.arg.q = EPipe(VAll(Some(1), 3), "Inbound", Some("knows"), Some(4), Some(1), 2)
    /\ last.res.ok
    /\ Len(wire[1].params) = 9
    /\ wire[1].params = <<1, 3, "knows", 4, 1, 2, "name", "v1", "v1">>
    /\ DollarsIn(wire[1].body) = <<"$7", "$8", "$9">>

\* The rows of a metadata table outside (owners, name).
Outside(rows, owners, name) == {m \in rows : ~(m.owner_id \in owners /\ m.name = name)}

\* C14: a set_vertex_metadata(q, name, value) or delete_vertex_metadata(q,
\* name) leaves as they were, in the caller's view, the vertices, the
\* edges, the edge metadata and every vertex metadata row whose owner q
\* does not produce or whose name is another one; when q produces no
\* vertex the whole view is as before.  The same for set_edge_metadata and
\* delete_edge_metadata with the edges q produces and the edge metadata.
C14_MetadataScope ==
    [][\A t \in Tx :
          LET a == last'.arg
              before == View(t)
              after == View(t)'
          IN
          /\ (\/ Called("set_vertex_metadata", t)
              \/ Called("delete_vertex_metadata", t)) =>
                LET owners == {v.id : v \in Range(VerticesRead(before, a.q))}
                IN  /\ after.vertices = before.vertices
                    /\ after.edges = before.edges
                    /\ after.edge_metadata = before.edge_metadata
                    /\ Outside(after.vertex_metadata, owners, a.name)
                           = Outside(before.vertex_metadata, owners, a.name)
                    /\ owners = {} => after = before
          /\ (\/ Called("set_edge_metadata", t)
              \/ Called("delete_edge_metadata", t)) =>
                LET owners == {e.id : e \in Range(Answer(get_edges_sql(a.q), before))}
                IN  /\ after.vertices = before.vertices
                    /\ after.edges = before.edges
                    /\ after.vertex_metadata = before.vertex_metadata
                    /\ Outside(after.edge_metadata, owners, a.name)
                           = Outside(before.edge_metadata, owners, a.name)
                    /\ owners = {} => after = before
      ]_vars

\* C14 witness: delete_vertex_metadata(Vertices{[1]}, "name") has returned
\* Ok; vertex 1 keeps its "score", vertex 2 its "name", vertex 3 the value
\* it had at the start, and vertex 1 has no "name".
C14_Witness ==
    /\ last.op = "delete_vertex_metadata"
    /\ last.res.ok
    /\ last.arg.q = VVertices(<<1>>)
    /\ last.arg.name = "name"
    /\ View(last.t).vertex_metadata =
          {[name |-> "score", owner_id |-> 1, value |-> "v1"],
           [name |-> "name", owner_id |-> 2, value |-> "v1"],
           [name |-> "name", owner_id |-> 3, value |-> "v0"]}

\* The two operations that wrap their insert in a savepoint.
CreateOps == {"create_vertex", "create_edge"}

\* C15: before and after every step no transaction has a savepoint open;
\* a create_vertex or create_edge first sends SAVEPOINT; when the
\* savepoint cannot be opened (the transaction is aborted or the
\* connection gone) nothing else is sent and the call returns an error;
\* when it is opened the call sends exactly SAVEPOINT, its insert, and
\* then RELEASE if it returns true or ROLLBACK TO if it returns false.
C15_SavepointScoped ==
    [][/\ \A t \in Tx : savepoints[t] = << >> /\ savepoints'[t] = << >>
       /\ \A t \in Tx :
             (last'.t = t /\ last'.op \in CreateOps) =>
                 LET name == IF last'.op = "create_vertex" THEN "create_vertex" ELSE "set_edge"
                     insert == IF last'.op = "create_vertex"
                                   THEN InsertVertexStatement(last'.arg)
                               ELSE InsertEdgeStatement(uuid_ctr', last'.arg)
                     opened == tx[t].state = "active" /\ last'.fault # "savepoint_lost"
                 IN  /\ Len(wire') >= 1
                     /\ wire'[1] = SavepointStatement(name)
                     /\ ~opened => (Len(wire') = 1 /\ ~last'.res.ok)
                     /\ opened =>
                           /\ Len(wire') = 3
                           /\ wire'[2] = insert
                           /\ last'.res.ok
                           /\ wire'[3] = IF last'.res.val THEN ReleaseStatement(name)
                                         ELSE RollbackToStatement(name)
      ]_vars

\* C15 witness: a create_vertex has returned false after SAVEPOINT, the
\* insert and ROLLBACK TO; no savepoint is open and the transaction is
\* active.
C15_Witness ==
    /\ last.op = "create_vertex"
    /\ last.fault = "none"
    /\ Returned(last.res, FALSE)
    /\ Len(wire) = 3
    /\ wire[3] = RollbackToStatement("create_vertex")
    /\ savepoints[last.t] = << >>
    /\ tx[last.t].state = "active"

\* C16: a create_vertex or create_edge that met no fault and returns false
\* leaves every table, row version by row version, and the state of its
\* transaction exactly as they were, so the caller sees what it saw before
\* and the transaction records no error; and the drop of an active
\* transaction commits everything the transaction saw.
C16_FalseChangesNothing ==
    [][\A t \in Tx :
          /\ (\E op \in CreateOps : Called(op, t) /\ Returned(last'.res, FALSE)) =>
                /\ tables' = tables
                /\ tx'[t] = tx[t]
                /\ View(t)' = View(t)
          /\ (last'.op = "drop" /\ last'.t = t /\ tx[t].state = "active") =>
                View(0)' = View(t)
      ]_vars

\* C16 witness: in a transaction that created the vertex 1, a create_edge
\* to a vertex that does not exist has returned false; the vertex is still
\* there and the transaction is active without an error.
C16_Witness ==
    /\ last.op = "create_edge"
    /\ last.fault = "none"
    /\ Returned(last.res, FALSE)
    /\ tx[last.t].made = {1}
    /\ {v.id : v \in View(last.t).vertices} = {1}
    /\ tx[last.t].state = "active"
    /\ ~tx[last.t].errored

\* C17: a delete_edges(q) that returns Ok removes from the caller's view
\* exactly the edges q produces (for a pipe at most limit of them) and
\* the edge metadata they own, and leaves every other edge, every other
\* edge metadata row, the vertices and the vertex metadata as they were.
C17_DeleteEdgesScope ==
    [][\A t \in Tx :
          (Called("delete_edges", t) /\ last'.res.ok) =>
              LET q == last'.arg
                  before == View(t)
                  after == View(t)'
                  gone == {e.id : e \in Range(Answer(get_edges_sql(q), before))}
              IN  /\ q.kind = "Pipe" => Cardinality(gone) <= q.limit
                  /\ after.edges = {e \in before.edges : e.id \notin gone}
                  /\ after.edge_metadata =
                         {m \in before.edge_metadata : m.owner_id \notin gone}
                  /\ after.vertices = before.vertices
                  /\ after.vertex_metadata = before.vertex_metadata
      ]_vars

\* C17 witness: of the three edges that leave the vertices 1 and 2,
\* delete_edges(Pipe(Vertices{[1, 2]}, Outbound, no filter, limit 1)) has
\* removed the most recent one and its metadata; the two others, their
\* metadata, the edge 3 -> 1 and the metadata of vertex 1 are still there.
C17_Witness ==
    /\ last.op = "delete_edges"
    /\ last.res.ok
    /\ last.arg = EPipe(VVertices(<<1, 2>>), "Outbound", None, None, None, 1)
    /\ {KeyOf(e) : e \in View(last.t).edges} = {QueryKeys[1], QueryKeys[2], QueryKeys[4]}
    /\ {m.owner_id : m \in View(last.t).edge_metadata} = {1, 2}
    /\ View(last.t).vertex_metadata # {}
    /\ \E r \in edges : KeyOf(r) = QueryKeys[3] /\ r.xmax = last.t

\* The fragment is the one the lowering pushes for a node: a leaf names
\* its table and selects from %t, a pipe has no name and selects from the
\* physical table of its kind on the endpoint of its direction.
FragmentOf(fragment, node) ==
    LET first == fragment.template[1] IN
    IF node.kind \in {"All", "Vertices"}
        THEN fragment.cte_name = "vertices" /\ first = SelectVertexFrom
    ELSE IF node.kind = "Edges"
        THEN fragment.cte_name = "edges" /\ first = SelectEdgeFrom
    ELSE /\ fragment.cte_name = ""
         /\ first = (IF IsVertexQuery(node)
                     THEN IF node.converter = "Outbound" THEN HeadVerticesOutbound
                          ELSE HeadVerticesInbound
                     ELSE IF node.converter = "Outbound" THEN HeadEdgesOutbound
                          ELSE HeadEdgesInbound)

\* C18: for every call of an operation built on the lowering, the
\* lowering of its query tree into an empty builder ends with one
\* fragment per node of the tree, the fragment of the leaf first and that
\* of the root last; the fragments of every subtree are the first
\* fragments of the whole, so a pipe pushes its own fragment after all
\* those of its inner query; the leaf's fragment is the only one pushed
\* into an empty builder; and the statement sent has one CTE per node.
C18_OneFragmentPerNode ==
    last.op \in LoweredOps =>
        LET q == QueryOf(last)
            nodes == Nodes(q)
            fragments == LoweringOf(q)
        IN  /\ Len(fragments) = Len(nodes)
            /\ \A i \in 1 .. Len(nodes) :
                  /\ FragmentOf(fragments[i], nodes[i])
                  /\ nodes[i].kind = "Pipe" <=> i > 1
                  /\ ToString(LoweringOf(nodes[i])) = ToString(SubSeq(fragments, 1, i))
            /\ Len(wire[1].with) = Len(nodes)

\* C18 witness: get_vertices on a tree of four nodes (vertex pipe over
\* edge pipe over vertex pipe over Edges) has returned Ok; the statement
\* has four CTEs, the first for the leaf.
C18_Witness ==
    /\ last.op = "get_vertices"
    /\ last.res.ok
    /\ Len(Nodes(last.arg)) = 4
    /\ Nodes(last.arg)[1].kind = "Edges"
    /\ [i \in 1 .. Len(wire[1].with) |-> wire[1].with[i].name]
           = <<"edges_1", "pipe_2", "pipe_3", "pipe_4">>

\* The indexes of the tokens of a body that name a relation: a physical
\* table or one of the CTEs of the statement.
RelationTokens(body, names) ==
    {k \in 1 .. Len(body) :
        body[k] \in {"vertices", "edges"} \cup {names[i] : i \in 1 .. Len(names)}}

\* C19: in the statement sent by every operation built on the lowering,
\* the body of the leaf reads one relation, the physical table of the
\* leaf's kind; every later body (each pipe's and the operation's own)
\* reads one relation, the CTE defined immediately before it, whatever
\* cte_name its fragment was pushed with; and the names of the CTEs are
\* pairwise distinct and none is the name of a physical table.
C19_ReadsPreviousCte ==
    last.op \in LoweredOps =>
        LET sent == wire[1]
            bodies == BodiesOf(sent)
            names == [i \in 1 .. Len(sent.with) |-> sent.with[i].name]
            leaf == Nodes(QueryOf(last))[1]
        IN  /\ Len(names) >= 1
            /\ \E k \in 1 .. Len(bodies[1]) :
                  /\ RelationTokens(bodies[1], names) = {k}
                  /\ bodies[1][k] = (IF leaf.kind = "Edges" THEN "edges" ELSE "vertices")
            /\ \A i \in 2 .. Len(bodies) :
                  \E k \in 1 .. Len(bodies[i]) :
                      /\ RelationTokens(bodies[i], names) = {k}
                      /\ bodies[i][k] = names[i - 1]
            /\ \A i, j \in 1 .. Len(names) : names[i] = names[j] => i = j
            /\ \A i \in 1 .. Len(names) : names[i] \notin {"vertices", "edges"}

\* C19 witness: get_edges on an edge pipe over a vertex pipe over a leaf
\* has returned Ok; the second pipe reads the CTE of the first, pushed
\* with an empty cte_name, and the final SELECT reads the CTE of the
\* second.
C19_Witness ==
    /\ last.op = "get_edges"
    /\ last.res.ok
    /\ Len(wire[1].with) = 3
    /\ wire[1].with[2].name = "pipe_2"
    /\ wire[1].with[3].body[2] = "pipe_2"
    /\ wire[1].with[3].name = "pipe_3"
    /\ wire[1].body[2] = "pipe_3"

\* What get_edge_metadata(q, name) returns in a view.
EdgeMetadataRead(view, q, name) ==
    ToEdgeMetadata(
        Answer(into_query_payload(edge_query_to_sql(q, new), FinalGetEdgeMetadata, <<name>>),
               view))

\* C20: a create_edge that met no fault, on a key whose edge the caller
\* sees, returns true after drawing a fresh id; in the caller's view the
\* edge of that key keeps its id, outbound_id, type and inbound_id and
\* carries the time of the call as update_timestamp; every other edge, the
\* vertices and both metadata tables are as before; and
\* get_edge_metadata(Edges{[K]}, name) returns what it returned before.
C20_RecreateKeepsId ==
    [][\A t \in Tx :
          (/\ Called("create_edge", t)
           /\ \E e \in View(t).edges : KeyOf(e) = last'.arg) =>
              LET K == last'.arg
                  before == View(t)
                  after == View(t)'
                  old == CHOOSE e \in before.edges : KeyOf(e) = K
              IN  /\ Returned(last'.res, TRUE)
                  /\ uuid_ctr' = uuid_ctr + 1
                  /\ clock' > old.update_timestamp
                  /\ after.edges =
                        (before.edges \ {old}) \cup {[old EXCEPT !.update_timestamp = clock']}
                  /\ after.vertices = before.vertices
                  /\ after.vertex_metadata = before.vertex_metadata
                  /\ after.edge_metadata = before.edge_metadata
                  /\ \A name \in MetadataNames :
                        EdgeMetadataRead(after, EEdges(<<K>>), name)
                            = EdgeMetadataRead(before, EEdges(<<K>>), name)
      ]_vars

\* C20 witness: create_edge has returned true for a key whose edge has an
\* id drawn by an earlier call and now carries the time of this call, and
\* get_edge_metadata for that key returns the value set before.
C20_Witness ==
    /\ last.op = "create_edge"
    /\ last.fault = "none"
    /\ Returned(last.res, TRUE)
    /\ \E e \in View(last.t).edges :
          /\ KeyOf(e) = last.arg
          /\ e.id < uuid_ctr
          /\ e.update_timestamp = clock
          /\ \E m \in View(last.t).edge_metadata : m.owner_id = e.id /\ m.name = "name"
    /\ Len(EdgeMetadataRead(View(last.t), EEdges(<<last.arg>>), "name")) = 1

\* The statements that begin or end the database transaction of a
\* connection.
CycleStatements == {"BEGIN", "COMMIT", "ROLLBACK"}

\* C21: a PostgresTransaction exists exactly while it owns a connection;
\* the connection it owns is out of the pool and carries its open database
\* transaction; no two PostgresTransactions own the same connection; every
\* connection out of the pool is owned by one; a connection that lies in
\* the pool has no database transaction open and had none at the moment
\* it was put back; and the connection sees one cycle: transaction() sends
\* BEGIN, drop sends the statement that ends the transaction and gives the
\* connection up, and no other operation sends BEGIN, COMMIT or ROLLBACK.
C21_OneCyclePerConnection ==
    /\ \A t \in Tx :
          /\ tx[t].state = "none" <=> conn[t] = 0
          /\ conn[t] # 0 => ~pool[conn[t]].idle /\ pool[conn[t]].open
    /\ \A t1, t2 \in Tx : (conn[t1] # 0 /\ conn[t1] = conn[t2]) => t1 = t2
    /\ \A c \in Conns :
          /\ ~pool[c].idle => \E t \in Tx : conn[t] = c
          /\ pool[c].idle => ~pool[c].open /\ ~pool[c].returned_open
    /\ (last.op = "transaction" /\ last.res.ok) =>
          /\ Len(wire) = 1 /\ wire[1].body = <<"BEGIN">>
          /\ conn[last.t] # 0
    /\ (last.op = "transaction" /\ ~last.res.ok) => conn[last.t] = 0
    /\ last.op = "drop" =>
          /\ Len(wire) = 1 /\ wire[1].body[1] \in {"COMMIT", "ROLLBACK"}
          /\ conn[last.t] = 0
    /\ last.op \notin {"init", "transaction", "drop"} =>
          \A i \in 1 .. Len(wire) : wire[i].body[1] \notin CycleStatements

\* C21 witness: a PostgresTransaction that created a vertex has been
\* dropped and committed while another one is alive on its own connection;
\* the connection of the dropped one lies in the pool with nothing open.
C21_Witness ==
    /\ last.op = "drop"
    /\ Returned(last.res, TRUE)
    /\ View(0).vertices # {}
    /\ \E t \in Tx :
          /\ tx[t].state = "active"
          /\ conn[t] # 0
          /\ \E c \in Conns \ {conn[t]} :
                pool[c].idle /\ ~pool[c].open /\ ~pool[c].returned_open

====
